---- MODULE Spec2Model ----
(***************************************************************************)
(* SynapseNotify: the file-backed alert mailboxes of src/synapsenotify.py. *)
(*                                                                         *)
(* A Python str is a sequence of one-character strings, so that upper()    *)
(* and replace() are computed and not assumed.  A Python value of another  *)
(* type is a record tagged with its type (PyInt, PyList, PyNone ...).      *)
(* subject and source_file are only stored and compared, never converted:  *)
(* they are TLA+ strings.                                                  *)
(***************************************************************************)
EXTENDS Integers, Sequences, FiniteSets, TLC

VARIABLES files, now, calls, master_log

vars == <<files, now, calls, master_log>>

(***************************************************************************)
(* Bounds of the model.                                                    *)
(***************************************************************************)
\* datetime.now() is read at this resolution: instants 0..MaxClock
MaxClock == 1

(***************************************************************************)
(* Python str operations                                                   *)
(***************************************************************************)
LowerChars == <<"a","b","c","d","e","f","g","h","i","j","k","l","m",
                "n","o","p","q","r","s","t","u","v","w","x","y","z">>

UpperChars == <<"A","B","C","D","E","F","G","H","I","J","K","L","M",
                "N","O","P","Q","R","S","T","U","V","W","X","Y","Z">>

LowerSet == {LowerChars[i] : i \in 1..Len(LowerChars)}

UpperOf == [c \in LowerSet |->
              UpperChars[CHOOSE i \in 1..Len(LowerChars) : LowerChars[i] = c]]

\* str.upper() on one character
UpperChar(c) == IF c \in LowerSet THEN UpperOf[c] ELSE c

\* str.upper()
upper(s) == [i \in 1..Len(s) |-> UpperChar(s[i])]

\* str.lower()
lower(s) ==
    [i \in 1..Len(s) |->
        IF \E j \in 1..Len(UpperChars) : UpperChars[j] = s[i]
        THEN LowerChars[CHOOSE j \in 1..Len(UpperChars) : UpperChars[j] = s[i]]
        ELSE s[i]]

\* str.replace(old, new): every non-overlapping occurrence, left to right
RECURSIVE replace(_, _, _)
replace(s, old, new) ==
    IF Len(s) < Len(old) THEN s
    ELSE IF SubSeq(s, 1, Len(old)) = old
         THEN new \o replace(SubSeq(s, Len(old) + 1, Len(s)), old, new)
         ELSE <<s[1]>> \o replace(Tail(s), old, new)

\* s[:n]
Slice(s, n) == SubSeq(s, 1, IF Len(s) < n THEN Len(s) ELSE n)

\* n copies of the character c
Rep(c, n) == [i \in 1..n |-> c]

(***************************************************************************)
(* Python values that are not str                                          *)
(***************************************************************************)
PyStr(s) == [t |-> "str", v |-> s]
PyInt(n) == [t |-> "int", v |-> n]
PyList(l) == [t |-> "list", v |-> l]
PyDict(d) == [t |-> "dict", v |-> d]
PyNone == [t |-> "NoneType"]
\* dict.get(key) on a message or content: a missing key
Absent == [t |-> "absent"]

IsStr(x) == x.t = "str"

(***************************************************************************)
(* String literals of the program                                          *)
(***************************************************************************)
FORGE == <<"F","O","R","G","E">>
ATLAS == <<"A","T","L","A","S">>
CLIO == <<"C","L","I","O">>
NEXUS == <<"N","E","X","U","S">>
BOLT == <<"B","O","L","T">>
GEMINI == <<"G","E","M","I","N","I">>
IRIS == <<"I","R","I","S">>
PORTER == <<"P","O","R","T","E","R">>
LOGAN == <<"L","O","G","A","N">>
LOGAN_SMITH == <<"L","O","G","A","N","_","S","M","I","T","H">>
ALL == <<"A","L","L">>
TEAM_BRAIN == <<"T","E","A","M","_","B","R","A","I","N">>
UNKNOWN == <<"U","N","K","N","O","W","N">>
CURSOR_ == <<"C","U","R","S","O","R","_">>
CLI_ == <<"C","L","I","_">>
LOW == <<"L","O","W">>
NORMAL == <<"N","O","R","M","A","L">>
HIGH == <<"H","I","G","H">>
CRITICAL == <<"C","R","I","T","I","C","A","L">>
Ellipsis == <<".",".",".">>

\* class Priority(Enum): the values
Priority == {LOW, NORMAL, HIGH, CRITICAL}

KNOWN_AGENTS == <<FORGE, ATLAS, CLIO, NEXUS, BOLT, GEMINI,
                  IRIS, PORTER, LOGAN, LOGAN_SMITH, ALL, TEAM_BRAIN>>

\* the broadcast expansion of create_alerts_from_synapse_message
BroadcastAgents == <<FORGE, ATLAS, CLIO, NEXUS, IRIS, PORTER>>

(***************************************************************************)
(* Results of a call: the files it leaves, what it returns, how often it   *)
(* invoked _trigger_bell, and the exception it let escape ("none": it      *)
(* returned).                                                              *)
(***************************************************************************)
Returned(fs, r, h) == [files |-> fs, ret |-> r, hook |-> h, exc |-> "none"]

Raised(fs, e, h) == [files |-> fs, ret |-> <<>>, hook |-> h, exc |-> e]

(***************************************************************************)
(* Alert, and the mailbox file                                             *)
(***************************************************************************)
AlertFields == {"id", "timestamp", "from_agent", "to_agent", "subject",
                "preview", "source_file", "priority", "read"}

\* Alert.to_dict: asdict(self)
to_dict(a) ==
    [id |-> a.id, timestamp |-> a.timestamp, from_agent |-> a.from_agent,
     to_agent |-> a.to_agent, subject |-> a.subject, preview |-> a.preview,
     source_file |-> a.source_file, priority |-> a.priority, read |-> a.read]

\* cls(**data) accepts data: every field but read is required, no other key
from_dict_accepts(data) ==
    /\ DOMAIN data \subseteq AlertFields
    /\ (AlertFields \ {"read"}) \subseteq DOMAIN data

\* Alert.from_dict: cls(**data), read defaulting to False
from_dict(data) ==
    [id |-> data.id, timestamp |-> data.timestamp, from_agent |-> data.from_agent,
     to_agent |-> data.to_agent, subject |-> data.subject, preview |-> data.preview,
     source_file |-> data.source_file, priority |-> data.priority,
     read |-> IF "read" \in DOMAIN data THEN data.read ELSE FALSE]

\* a JSON document whose top level is an object with the fields of rec
JsonObject(rec) == [kind |-> "json", t |-> "dict", v |-> rec]

\* a JSON document whose top level is an array
JsonArray(l) == [kind |-> "json", t |-> "list", v |-> l]

\* a file that json.load rejects
InvalidJson == [kind |-> "invalid_json"]

\* variant: every mailbox is kept in one file
_get_alert_file_Shared(agent) == <<"A","L","E","R","T","S">>

\* _get_alert_file: the file name of an agent's mailbox
_get_alert_file(agent) == replace(upper(agent), <<" ">>, <<"_">>)

\* variant: a missing file is opened, and FileNotFoundError escapes
_load_alerts_MissingRaises(fs, agent) ==
    LET alert_file == _get_alert_file(agent) IN
    IF alert_file \notin DOMAIN fs
    THEN [exc |-> "FileNotFoundError", alerts |-> <<>>]
    ELSE IF fs[alert_file].kind = "invalid_json" \/ fs[alert_file].t # "dict"
    THEN [exc |-> "none", alerts |-> <<>>]
    ELSE LET recs == fs[alert_file].v.alerts
         IN  [exc |-> "none", alerts |-> [i \in 1..Len(recs) |-> from_dict(recs[i])]]

\* _load_alerts: [exc, alerts]
_load_alerts(fs, agent) ==
    LET alert_file == _get_alert_file(agent) IN
    IF alert_file \notin DOMAIN fs
    THEN [exc |-> "none", alerts |-> <<>>]
    ELSE IF fs[alert_file].kind = "invalid_json"
    THEN [exc |-> "none", alerts |-> <<>>]
    ELSE IF fs[alert_file].t # "dict"
    THEN [exc |-> "AttributeError", alerts |-> <<>>]
    ELSE LET data == fs[alert_file].v
             recs == IF "alerts" \in DOMAIN data THEN data.alerts ELSE <<>>
         IN  IF \E i \in 1..Len(recs) : ~from_dict_accepts(recs[i])
             THEN [exc |-> "TypeError", alerts |-> <<>>]
             ELSE [exc |-> "none",
                   alerts |-> [i \in 1..Len(recs) |-> from_dict(recs[i])]]

\* len([a for a in alerts if not a.read])
UnreadCount(alerts) == Cardinality({i \in 1..Len(alerts) : ~alerts[i].read})

\* the document _save_alerts dumps
MailboxData(agent, alerts, t) ==
    JsonObject([agent |-> upper(agent),
                last_updated |-> t,
                alert_count |-> Len(alerts),
                unread_count |-> UnreadCount(alerts),
                alerts |-> [i \in 1..Len(alerts) |-> to_dict(alerts[i])]])

\* a subject holding a lone surrogate (as json.load returns it for the
\* escape \ud800 of a message), which the utf-8 codec of the file refuses;
\* the other texts of the model are ASCII
Unencodable == "<U+D800>"

\* the file object can encode every text of the alerts
Encodable(alerts) == \A i \in 1..Len(alerts) : alerts[i].subject # Unencodable

\* _save_alerts: the agent's file is overwritten (mode 'w'); when the codec
\* refuses a text, the file keeps what json.dump wrote until then, the
\* beginning of the document, which is no JSON
_save_alerts(fs, agent, alerts, t) ==
    LET alert_file == _get_alert_file(agent) IN
    [f \in DOMAIN fs \cup {alert_file} |->
        IF f = alert_file
        THEN IF Encodable(alerts) THEN MailboxData(agent, alerts, t) ELSE InvalidJson
        ELSE fs[f]]

\* _generate_alert_id: the first 12 hex digits of the md5 of the instant
_generate_alert_id(t) == <<"md5", t>>

\* the outcome of a call that ends with _save_alerts: UnicodeEncodeError
\* escapes when the codec refuses a text
Saved(fs, agent, alerts, t, r, h) ==
    IF Encodable(alerts)
    THEN Returned(_save_alerts(fs, agent, alerts, t), r, h)
    ELSE Raised(_save_alerts(fs, agent, alerts, t), "UnicodeEncodeError", 0)

(***************************************************************************)
(* _extract_preview.  A dict content is a sequence of <<key, value>> pairs *)
(* in insertion order.                                                     *)
(***************************************************************************)
HasKey(d, k) == \E i \in 1..Len(d) : d[i][1] = k

\* dict.get(k, default)
DictGet(d, k, default) ==
    IF HasKey(d, k) THEN d[CHOOSE i \in 1..Len(d) : d[i][1] = k][2] ELSE default

Quoted(s) == <<"'">> \o s \o <<"'">>

\* repr() of a value held in a content dict
PyRepr(x) ==
    IF x.t = "str" THEN Quoted(x.v)
    ELSE IF x.t = "NoneType" THEN <<"N","o","n","e">>
    ELSE <<"?">>

\* str(content) of a dict: {'k': v, 'k2': v2}
RECURSIVE DictItems(_, _)
DictItems(d, i) ==
    IF i > Len(d) THEN <<>>
    ELSE Quoted(d[i][1]) \o <<":", " ">> \o PyRepr(d[i][2])
         \o (IF i < Len(d) THEN <<",", " ">> ELSE <<>>)
         \o DictItems(d, i + 1)

DictStr(d) == <<"{">> \o DictItems(d, 1) \o <<"}">>

K_announcement == <<"a","n","n","o","u","n","c","e","m","e","n","t">>
K_message == <<"m","e","s","s","a","g","e">>
K_summary == <<"s","u","m","m","a","r","y">>

\* variant: message is looked up before announcement
PreviewSource_MessageFirst(content) ==
    IF content.t = "str" THEN PyStr(Slice(content.v, 100))
    ELSE IF content.t = "dict"
    THEN DictGet(content.v, K_message,
           DictGet(content.v, K_announcement,
             DictGet(content.v, K_summary,
               PyStr(Slice(DictStr(content.v), 100)))))
    ELSE PyStr(Slice(PyRepr(content), 100))

\* the text the preview is cut from, as a Python value
PreviewSource(content) ==
    IF content.t = "str" THEN PyStr(Slice(content.v, 100))
    ELSE IF content.t = "dict"
    THEN DictGet(content.v, K_announcement,
           DictGet(content.v, K_message,
             DictGet(content.v, K_summary,
               PyStr(Slice(DictStr(content.v), 100)))))
    ELSE PyStr(Slice(PyRepr(content), 100))

\* variant: the ellipsis is appended to the first 100 characters
_extract_preview_Keeps100(content) ==
    LET preview == PreviewSource(content) IN
    IF preview.t # "str" THEN [exc |-> "TypeError", preview |-> <<>>]
    ELSE IF Len(preview.v) >= 100
    THEN [exc |-> "none", preview |-> Slice(preview.v, 100) \o Ellipsis]
    ELSE [exc |-> "none", preview |-> preview.v]

\* _extract_preview: [exc, preview]; the field values of a dict content are
\* str, None or numbers, and len() of None or of a number raises
_extract_preview(content) ==
    LET preview == PreviewSource(content) IN
    IF preview.t # "str" THEN [exc |-> "TypeError", preview |-> <<>>]
    ELSE IF Len(preview.v) >= 100
    THEN [exc |-> "none", preview |-> Slice(preview.v, 97) \o Ellipsis]
    ELSE [exc |-> "none", preview |-> preview.v]

(***************************************************************************)
(* The operations of SynapseNotify, each as a function of the files, the   *)
(* instant t that datetime.now() returns during the call, and the          *)
(* arguments.  to_agent, from_agent, priority and content are Python       *)
(* values (PyStr ...); agent of the query and update operations is a str.  *)
(***************************************************************************)
\* variant: the recipient is uppercased and nothing is removed
NormalizeAgent_UpperOnly(name) == upper(name)

\* the agent name normalization of create_alert
NormalizeAgent(name) == replace(replace(upper(name), CURSOR_, <<>>), CLI_, <<>>)

\* Priority(priority.upper()).value, ValueError giving NORMAL
ValidatePriority(priority) ==
    IF upper(priority) \in Priority THEN upper(priority) ELSE NORMAL

\* variant: the set is built from the ids its name speaks of
SourceFiles_Ids(alerts) == {alerts[i].id : i \in 1..Len(alerts)}

\* variant: only the unread alerts count as existing
SourceFiles_Unread(alerts) ==
    {alerts[i].source_file : i \in {j \in 1..Len(alerts) : ~alerts[j].read}}

\* {a.source_file for a in alerts}
SourceFiles(alerts) == {alerts[i].source_file : i \in 1..Len(alerts)}

\* variant: the duplicate falls through to the save and the bell
OnDuplicate_Saves(fs, t, to, alerts, alert) ==
    Returned(_save_alerts(fs, to, alerts, t), alert, 1)

\* variant: the stored alert of the source_file gives way to the new one
OnDuplicate_Refreshes(fs, t, to, alerts, alert) ==
    Returned(_save_alerts(fs, to,
                          [i \in 1..Len(alerts) |->
                              IF alerts[i].source_file = alert.source_file
                              THEN alert ELSE alerts[i]],
                          t),
             alert, 0)

\* the duplicate branch: the alert is returned, nothing is saved, no bell
OnDuplicate(fs, t, to, alerts, alert) == Returned(fs, alert, 0)

create_alert(fs, t, to_agent, from_agent, subject, content, source_file, priority) ==
    IF ~IsStr(to_agent) \/ ~IsStr(from_agent) \/ ~IsStr(priority)
    THEN Raised(fs, "AttributeError", 0)
    ELSE
    LET to == NormalizeAgent(to_agent.v)
        from == NormalizeAgent(from_agent.v)
        pv == _extract_preview(content)
        alert == [id |-> _generate_alert_id(t),
                  timestamp |-> t,
                  from_agent |-> from,
                  to_agent |-> to,
                  subject |-> subject,
                  preview |-> pv.preview,
                  source_file |-> source_file,
                  priority |-> ValidatePriority(priority.v),
                  read |-> FALSE]
        loaded == _load_alerts(fs, to)
    IN  IF pv.exc # "none" THEN Raised(fs, pv.exc, 0)
        ELSE IF loaded.exc # "none" THEN Raised(fs, loaded.exc, 0)
        ELSE IF source_file \in SourceFiles(loaded.alerts)
        THEN OnDuplicate(fs, t, to, loaded.alerts, alert)
        ELSE Saved(fs, to, Append(loaded.alerts, alert), t, alert, 1)

\* msg.get(key, default) on the message object
MsgGet(msg, key, default) == IF key \in DOMAIN msg THEN msg[key] ELSE default

\* variant: the alias is compared as spelled
Expand_CaseSensitive(recipient) ==
    IF recipient \in {ALL, TEAM_BRAIN}
    THEN [i \in 1..Len(BroadcastAgents) |-> PyStr(BroadcastAgents[i])]
    ELSE <<PyStr(recipient)>>

\* the agents one recipient stands for
Expand(recipient) ==
    IF upper(recipient) \in {ALL, TEAM_BRAIN}
    THEN [i \in 1..Len(BroadcastAgents) |-> PyStr(BroadcastAgents[i])]
    ELSE <<PyStr(recipient)>>

\* the create_alert calls for the agents of one recipient, until one raises
RECURSIVE CreateFor(_, _, _, _, _)
CreateFor(acc, t, agents, i, m) ==
    IF i > Len(agents) \/ acc.exc # "none" THEN acc
    ELSE LET r == create_alert(acc.files, t, agents[i], m.from_agent,
                               m.subject, m.body, m.source_file, m.priority)
         IN  CreateFor([files |-> r.files,
                        ret |-> IF r.exc = "none" THEN Append(acc.ret, r.ret) ELSE acc.ret,
                        hook |-> acc.hook + r.hook,
                        exc |-> r.exc],
                       t, agents, i + 1, m)

\* for recipient in to_list
RECURSIVE ForRecipients(_, _, _, _, _)
ForRecipients(acc, t, to_list, i, m) ==
    IF i > Len(to_list) \/ acc.exc # "none" THEN acc
    ELSE IF ~IsStr(to_list[i])
    THEN [acc EXCEPT !.exc = "AttributeError"]
    ELSE ForRecipients(CreateFor(acc, t, Expand(to_list[i].v), 1, m),
                       t, to_list, i + 1, m)

\* variant: a str is not wrapped, so that it is iterated by character
AsList_Chars(x) ==
    IF IsStr(x) THEN PyList([i \in 1..Len(x.v) |-> PyStr(<<x.v[i]>>)]) ELSE x

\* a recipient field as a list: a str is wrapped, anything else is kept
AsList(x) == IF IsStr(x) THEN PyList(<<x>>) ELSE x

\* variant: content is preferred to body
Body_ContentFirst(msg) == MsgGet(msg, "content", MsgGet(msg, "body", PyStr(<<>>)))

\* msg.get('body', msg.get('content', ''))
Body(msg) == MsgGet(msg, "body", MsgGet(msg, "content", PyStr(<<>>)))

\* create_alerts_from_synapse_message; file is the content found at
\* message_path: "missing", "unreadable", or a document
create_alerts_from_synapse_message(fs, t, message_path, file) ==
    IF file.kind \in {"missing", "invalid_json"} THEN Returned(fs, <<>>, 0)
    ELSE IF file.kind = "unreadable" THEN Raised(fs, "OSError", 0)
    ELSE IF file.t # "dict" THEN Raised(fs, "AttributeError", 0)
    ELSE
    LET msg == file.v
        to_list == AsList(MsgGet(msg, "to", PyList(<<>>)))
        cc_list == AsList(MsgGet(msg, "cc", PyList(<<>>)))
        m == [from_agent |-> MsgGet(msg, "from", PyStr(UNKNOWN)),
              subject |-> MsgGet(msg, "subject", "No Subject"),
              body |-> Body(msg),
              priority |-> MsgGet(msg, "priority", PyStr(NORMAL)),
              source_file |-> message_path]
    IN  IF to_list.t # "list" THEN Raised(fs, "AttributeError", 0)
        ELSE IF cc_list.t # "list" THEN Raised(fs, "TypeError", 0)
        ELSE ForRecipients(Returned(fs, <<>>, 0), t,
                           to_list.v \o cc_list.v, 1, m)

\* variant: an alert is put before the alerts of its own timestamp
RECURSIVE InsertByTimestamp_Unstable(_, _)
InsertByTimestamp_Unstable(sorted, a) ==
    IF sorted = <<>> THEN <<a>>
    ELSE IF a.timestamp >= sorted[1].timestamp
    THEN <<a>> \o sorted
    ELSE <<sorted[1]>> \o InsertByTimestamp_Unstable(Tail(sorted), a)

\* list.sort(key=timestamp, reverse=True): stable, newest first
RECURSIVE InsertByTimestamp(_, _)
InsertByTimestamp(sorted, a) ==
    IF sorted = <<>> THEN <<a>>
    ELSE IF a.timestamp > sorted[1].timestamp
    THEN <<a>> \o sorted
    ELSE <<sorted[1]>> \o InsertByTimestamp(Tail(sorted), a)

RECURSIVE SortNewestFirst(_, _)
SortNewestFirst(alerts, n) ==
    IF n = 0 THEN <<>>
    ELSE InsertByTimestamp(SortNewestFirst(alerts, n - 1), alerts[n])

IsUnread(a) == ~a.read

\* variant: the alerts loaded are marked read and saved
get_alerts_MarksRead(fs, agent, unread_only, priority) ==
    LET loaded == _load_alerts(fs, agent)
        byRead == IF unread_only THEN SelectSeq(loaded.alerts, IsUnread)
                  ELSE loaded.alerts
    IN  IF loaded.exc # "none" THEN Raised(fs, loaded.exc, 0)
        ELSE Returned(_save_alerts(fs, agent,
                                   [i \in 1..Len(loaded.alerts) |->
                                       [loaded.alerts[i] EXCEPT !.read = TRUE]],
                                   0),
                      SortNewestFirst(byRead, Len(byRead)), 0)

\* get_alerts; priority is PyNone or a PyStr
get_alerts(fs, agent, unread_only, priority) ==
    LET loaded == _load_alerts(fs, agent)
        byRead == IF unread_only THEN SelectSeq(loaded.alerts, IsUnread)
                  ELSE loaded.alerts
        Wanted(a) == a.priority = upper(priority.v)
        byPrio == IF priority.t = "str" /\ priority.v # <<>>
                  THEN SelectSeq(byRead, Wanted) ELSE byRead
    IN  IF loaded.exc # "none" THEN Raised(fs, loaded.exc, 0)
        ELSE Returned(fs, SortNewestFirst(byPrio, Len(byPrio)), 0)

\* variant: the count is that of all alerts, whatever unread_only
get_alert_count_Total(fs, agent, unread_only) ==
    LET r == get_alerts(fs, agent, FALSE, PyNone) IN
    IF r.exc # "none" THEN r ELSE Returned(fs, Len(r.ret), 0)

\* get_alert_count
get_alert_count(fs, agent, unread_only) ==
    LET r == get_alerts(fs, agent, unread_only, PyNone) IN
    IF r.exc # "none" THEN r ELSE Returned(fs, Len(r.ret), 0)

\* variant: the loop does not stop at the first alert it marks
RECURSIVE MarkLoop_NoBreak(_, _, _, _)
MarkLoop_NoBreak(alerts, i, alert_id, count) ==
    IF i > Len(alerts) THEN [alerts |-> alerts, count |-> count]
    ELSE LET should_mark == alert_id.t = "NoneType" \/ alerts[i].id = alert_id.v IN
         IF should_mark /\ ~alerts[i].read
         THEN MarkLoop_NoBreak([alerts EXCEPT ![i].read = TRUE], i + 1, alert_id, count + 1)
         ELSE MarkLoop_NoBreak(alerts, i + 1, alert_id, count)

\* variant: every matching alert is counted, read or not
RECURSIVE MarkLoop_CountsRead(_, _, _, _)
MarkLoop_CountsRead(alerts, i, alert_id, count) ==
    IF i > Len(alerts) THEN [alerts |-> alerts, count |-> count]
    ELSE LET should_mark == alert_id.t = "NoneType" \/ alerts[i].id = alert_id.v IN
         IF should_mark
         THEN IF alert_id.t # "NoneType"
              THEN [alerts |-> [alerts EXCEPT ![i].read = TRUE], count |-> count + 1]
              ELSE MarkLoop_CountsRead([alerts EXCEPT ![i].read = TRUE], i + 1,
                                       alert_id, count + 1)
         ELSE MarkLoop_CountsRead(alerts, i + 1, alert_id, count)

\* the loop of mark_read from alert i on: [alerts, count]
RECURSIVE MarkLoop(_, _, _, _)
MarkLoop(alerts, i, alert_id, count) ==
    IF i > Len(alerts) THEN [alerts |-> alerts, count |-> count]
    ELSE LET should_mark == alert_id.t = "NoneType" \/ alerts[i].id = alert_id.v IN
         IF should_mark /\ ~alerts[i].read
         THEN IF alert_id.t # "NoneType"
              THEN [alerts |-> [alerts EXCEPT ![i].read = TRUE], count |-> count + 1]
              ELSE MarkLoop([alerts EXCEPT ![i].read = TRUE], i + 1, alert_id, count + 1)
         ELSE MarkLoop(alerts, i + 1, alert_id, count)

\* mark_read; alert_id is PyNone or a PyStr
mark_read(fs, t, agent, alert_id) ==
    LET loaded == _load_alerts(fs, agent)
        marked == MarkLoop(loaded.alerts, 1, alert_id, 0)
    IN  IF loaded.exc # "none" THEN Raised(fs, loaded.exc, 0)
        ELSE Saved(fs, agent, marked.alerts, t, marked.count, 0)

\* variant: keep_unread keeps the read alerts
clear_alerts_KeepsRead(fs, t, agent, keep_unread) ==
    LET loaded == _load_alerts(fs, agent)
        WasRead(a) == a.read
        kept == IF keep_unread THEN SelectSeq(loaded.alerts, WasRead) ELSE <<>>
    IN  IF loaded.exc # "none" THEN Raised(fs, loaded.exc, 0)
        ELSE Returned(_save_alerts(fs, agent, kept, t),
                      Len(loaded.alerts) - Len(kept), 0)

\* clear_alerts
clear_alerts(fs, t, agent, keep_unread) ==
    LET loaded == _load_alerts(fs, agent)
        kept == IF keep_unread THEN SelectSeq(loaded.alerts, IsUnread) ELSE <<>>
    IN  IF loaded.exc # "none" THEN Raised(fs, loaded.exc, 0)
        ELSE Saved(fs, agent, kept, t, Len(loaded.alerts) - Len(kept), 0)

\* a line of the report: its fixed text and the values formatted into it
Line(text, args) == [text |-> text, args |-> args]

Rule == Line("====", <<>>)

Blank == Line("", <<>>)

\* the lines of the CRITICAL group: sender, subject, preview and file each
RECURSIVE CriticalLines(_, _)
CriticalLines(alerts, i) ==
    IF i > Len(alerts) THEN <<>>
    ELSE <<Line("  From: {from_agent}", <<alerts[i].from_agent>>),
           Line("  Subject: {subject}", <<alerts[i].subject>>),
           Line("  Preview: {preview}", <<alerts[i].preview>>),
           Line("  File: {source_file}", <<alerts[i].source_file>>),
           Blank>>
         \o CriticalLines(alerts, i + 1)

\* the lines of the HIGH group: sender and subject, preview[:50] and "..."
RECURSIVE HighLines(_, _)
HighLines(alerts, i) ==
    IF i > Len(alerts) THEN <<>>
    ELSE <<Line("  From: {from_agent} - {subject}",
                <<alerts[i].from_agent, alerts[i].subject>>),
           Line("  Preview: {preview[:50]}...",
                <<Slice(alerts[i].preview, 50) \o Ellipsis>>),
           Blank>>
         \o HighLines(alerts, i + 1)

\* the lines of the NORMAL group: sender and subject
NormalLines(alerts) ==
    [i \in 1..Len(alerts) |->
        Line("  From: {from_agent} - {subject}",
             <<alerts[i].from_agent, alerts[i].subject>>)]

\* variant: the last group takes the NORMAL alerts only
NormalGroup_NoLow(alerts) ==
    LET Is(a) == a.priority = NORMAL IN SelectSeq(alerts, Is)

\* [a for a in alerts if a.priority == 'CRITICAL']
CriticalGroup(alerts) ==
    LET Is(a) == a.priority = CRITICAL IN SelectSeq(alerts, Is)

\* [a for a in alerts if a.priority == 'HIGH']
HighGroup(alerts) ==
    LET Is(a) == a.priority = HIGH IN SelectSeq(alerts, Is)

\* [a for a in alerts if a.priority in ['NORMAL', 'LOW']]
NormalGroup(alerts) ==
    LET Is(a) == a.priority \in {NORMAL, LOW} IN SelectSeq(alerts, Is)

\* variant: the bell argument is not consulted
ReportBell_IgnoresArgument(bell, enable_bell) == IF enable_bell THEN 1 ELSE 0

\* if bell and self.enable_bell: self._trigger_bell()
ReportBell(bell, enable_bell) == IF bell /\ enable_bell THEN 1 ELSE 0

\* the line returned when get_alerts(agent, unread_only=True) is empty
NoNewMessages(agent) == Line("[OK] No new messages for {agent}", <<agent>>)

\* check_and_report: the report as the sequence of its lines; enable_bell is
\* the setting of the instance.  The subjects and previews of the model are
\* text that _safe_str returns as it is.
check_and_report(fs, agent, bell, enable_bell) ==
    LET r == get_alerts(fs, agent, TRUE, PyNone)
        alerts == r.ret
        critical == CriticalGroup(alerts)
        high == HighGroup(alerts)
        normal == NormalGroup(alerts)
    IN  IF r.exc # "none" THEN r
        ELSE IF alerts = <<>> THEN Returned(fs, <<NoNewMessages(agent)>>, 0)
        ELSE Returned(fs,
                 <<Rule,
                   Line("[!] {len(alerts)} NEW MESSAGE(S) FOR {agent}",
                        <<Len(alerts), agent>>),
                   Rule,
                   Blank>>
                 \o (IF critical # <<>>
                     THEN <<Line("[!!!] CRITICAL MESSAGES:", <<>>)>>
                          \o CriticalLines(critical, 1)
                     ELSE <<>>)
                 \o (IF high # <<>>
                     THEN <<Line("[!] HIGH PRIORITY:", <<>>)>> \o HighLines(high, 1)
                     ELSE <<>>)
                 \o (IF normal # <<>>
                     THEN <<Line("[i] NORMAL MESSAGES:", <<>>)>>
                          \o NormalLines(normal) \o <<Blank>>
                     ELSE <<>>)
                 \o <<Rule,
                      Line("Run: synapsenotify read <agent> - to mark all as read", <<>>),
                      Line("Run: synapsenotify clear <agent> - to clear alerts", <<>>),
                      Rule>>,
                 ReportBell(bell, enable_bell))

\* variant: the roster leaves out the broadcast aliases only
StatusAgents_WithHumans ==
    SelectSeq(KNOWN_AGENTS, LAMBDA a : a \notin {ALL, TEAM_BRAIN})

\* the agents of KNOWN_AGENTS that get_all_agents_status counts
StatusAgents ==
    SelectSeq(KNOWN_AGENTS, LAMBDA a : a \notin {ALL, TEAM_BRAIN, LOGAN, LOGAN_SMITH})

\* the loop of get_all_agents_status from agent i on; status is the dict
RECURSIVE StatusLoop(_, _, _, _)
StatusLoop(fs, agents, i, status) ==
    IF i > Len(agents) THEN Returned(fs, status, 0)
    ELSE LET c == get_alert_count(fs, agents[i], TRUE) IN
         IF c.exc # "none" THEN c
         ELSE StatusLoop(fs, agents, i + 1,
                         IF c.ret > 0
                         THEN [a \in DOMAIN status \cup {agents[i]} |->
                                  IF a = agents[i] THEN c.ret ELSE status[a]]
                         ELSE status)

\* get_all_agents_status: the dict as a function from agent to count
get_all_agents_status(fs) == StatusLoop(fs, StatusAgents, 1, <<>>)

(***************************************************************************)
(* ToolRequestScanner.  The master log keeps tracking_info.last_updated,   *)
(* active_requests, completed_requests and the statistics the scan         *)
(* updates; an entry keeps request_id, synapse_message_id, status and      *)
(* source_file, the fields copied from the body of the request being left  *)
(* out.  A request file is [name, doc]: its stem and what it holds.        *)
(***************************************************************************)
\* variant: the statistics of a new log count one request
NewMasterLog_CountsOne(t) ==
    [tracking_info |-> [created |-> t, last_updated |-> t],
     active_requests |-> <<>>,
     completed_requests |-> <<>>,
     statistics |-> [total_requests |-> 1, pending |-> 0]]

\* the log structure created when the log file is missing or no JSON
NewMasterLog(t) ==
    [tracking_info |-> [created |-> t, last_updated |-> t],
     active_requests |-> <<>>,
     completed_requests |-> <<>>,
     statistics |-> [total_requests |-> 0, pending |-> 0]]

\* existing_msg_ids: the synapse_message_id of the active and completed requests
ExistingMsgIds(log) ==
    {log.active_requests[i].synapse_message_id : i \in 1..Len(log.active_requests)}
    \cup {log.completed_requests[i].synapse_message_id :
             i \in 1..Len(log.completed_requests)}

\* the loop over tool_request_files from file i on: [log, new_requests].  A
\* file that is no JSON object, or whose body is no object, raises inside the
\* try before anything is appended, and is skipped.
RECURSIVE ScanLoop(_, _, _, _, _)
ScanLoop(log, existing_msg_ids, tool_request_files, i, new_requests) ==
    IF i > Len(tool_request_files)
    THEN [log |-> log, new_requests |-> new_requests]
    ELSE LET request_file == tool_request_files[i]
             request == request_file.doc
         IN  IF request.kind # "json" \/ request.t # "dict"
             THEN ScanLoop(log, existing_msg_ids, tool_request_files, i + 1, new_requests)
             ELSE LET msg_id == MsgGet(request.v, "msg_id", request_file.name)
                      body == MsgGet(request.v, "body", PyDict(<<>>))
                      new_entry ==
                          [request_id |-> log.statistics.total_requests + new_requests + 1,
                           synapse_message_id |-> msg_id,
                           status |-> "PENDING",
                           source_file |-> request_file.name]
                  IN  IF msg_id \in existing_msg_ids \/ body.t # "dict"
                      THEN ScanLoop(log, existing_msg_ids, tool_request_files,
                                    i + 1, new_requests)
                      ELSE ScanLoop([log EXCEPT !.active_requests = Append(@, new_entry)],
                                    existing_msg_ids, tool_request_files,
                                    i + 1, new_requests + 1)

\* scan_and_sync: [log, ret]; log_file is what TOOL_REQUEST_LOG holds,
\* tool_request_files what the glob lists
scan_and_sync(log_file, tool_request_files, t) ==
    IF tool_request_files = <<>> THEN [log |-> log_file, ret |-> 0]
    ELSE
    LET master_log_ == IF log_file.kind \in {"missing", "invalid_json"}
                       THEN NewMasterLog(t) ELSE log_file.v
        scanned == ScanLoop(master_log_, ExistingMsgIds(master_log_),
                            tool_request_files, 1, 0)
        Pending(r) == r.status = "PENDING"
    IN  IF scanned.new_requests > 0
        THEN [log |-> JsonObject(
                 [scanned.log EXCEPT
                     !.statistics.total_requests = @ + scanned.new_requests,
                     !.statistics.pending =
                         Len(SelectSeq(scanned.log.active_requests, Pending)),
                     !.tracking_info.last_updated = t]),
              ret |-> scanned.new_requests]
        ELSE [log |-> log_file, ret |-> 0]

(***************************************************************************)
(* main.  argv is sys.argv[1:], each argument a str; file is what the      *)
(* path of the alert subcommand holds, tool_request_files what the glob of *)
(* sync-requests lists.  The result has the files and the log the process  *)
(* leaves, its exit code, and the exception that ended it ("none": it      *)
(* ended by sys.exit or by returning from main).  An exception nothing     *)
(* catches ends the process with exit code 1.                              *)
(***************************************************************************)
\* the subcommands, as spelled on the command line
Cmd ==
    [check |-> <<"c","h","e","c","k">>,
     count |-> <<"c","o","u","n","t">>,
     list |-> <<"l","i","s","t">>,
     read |-> <<"r","e","a","d">>,
     clear |-> <<"c","l","e","a","r">>,
     alert |-> <<"a","l","e","r","t">>,
     status |-> <<"s","t","a","t","u","s">>,
     bell |-> <<"b","e","l","l">>,
     sync_requests |-> <<"s","y","n","c","-","r","e","q","u","e","s","t","s">>,
     pending_requests |-> <<"p","e","n","d","i","n","g","-","r","e","q","u","e","s","t","s">>]

\* the flags of list and clear
Flag == [all |-> <<"-","-","a","l","l">>, keep |-> <<"-","-","k","e","e","p">>]

\* the subcommands that take a required argument
WithArgument == {Cmd.check, Cmd.count, Cmd.list, Cmd.read, Cmd.clear, Cmd.alert}

\* the subcommands main knows
Subcommands ==
    WithArgument \cup {Cmd.status, Cmd.bell, Cmd.sync_requests, Cmd.pending_requests}

\* flag in sys.argv
HasFlag(argv, flag) == \E i \in 1..Len(argv) : argv[i] = flag

main(fs, log_file, argv, file, tool_request_files, t) ==
    LET Exit(code) == [files |-> fs, log |-> log_file, code |-> code, exc |-> "none"]
        Done(r) == [files |-> r.files, log |-> log_file,
                    code |-> IF r.exc = "none" THEN 0 ELSE 1, exc |-> r.exc]
    IN  IF Len(argv) < 1 THEN Exit(1)
        ELSE
        LET command == lower(argv[1]) IN
        IF command \in WithArgument /\ Len(argv) < 2 THEN Exit(1)
        ELSE IF command = Cmd.check
        THEN Done(check_and_report(fs, upper(argv[2]), TRUE, TRUE))
        ELSE IF command = Cmd.count
        THEN Done(get_alert_count(fs, upper(argv[2]), TRUE))
        ELSE IF command = Cmd.list
        THEN Done(get_alerts(fs, upper(argv[2]), ~HasFlag(argv, Flag.all), PyNone))
        ELSE IF command = Cmd.read
        THEN Done(mark_read(fs, t, upper(argv[2]),
                            IF Len(argv) > 2 THEN PyStr(argv[3]) ELSE PyNone))
        ELSE IF command = Cmd.clear
        THEN Done(clear_alerts(fs, t, upper(argv[2]), HasFlag(argv, Flag.keep)))
        ELSE IF command = Cmd.alert
        THEN IF file.kind = "missing" THEN Exit(1)
             ELSE Done(create_alerts_from_synapse_message(fs, t, argv[2], file))
        ELSE IF command = Cmd.status
        THEN Done(get_all_agents_status(fs))
        ELSE IF command = Cmd.bell
        THEN Exit(0)
        ELSE IF command = Cmd.sync_requests
        THEN [files |-> fs, log |-> scan_and_sync(log_file, tool_request_files, t).log,
              code |-> 0, exc |-> "none"]
        ELSE IF command = Cmd.pending_requests
        THEN Exit(0)
        ELSE Exit(1)

(***************************************************************************)
(* The inputs the calls are drawn from                                     *)
(***************************************************************************)
cursor_forge == <<"c","u","r","s","o","r","_","f","o","r","g","e">>
CLI_CLIO == <<"C","L","I","_","C","L","I","O">>
team_brain == <<"t","e","a","m","_","b","r","a","i","n">>
logan == <<"l","o","g","a","n">>
high == <<"h","i","g","h">>
BOGUS == <<"B","O","G","U","S">>
hello == <<"h","e","l","l","o">>

\* source_file of direct create_alert calls
Paths == {"m1.json", "m2.json"}

\* message_path of create_alerts_from_synapse_message
MessagePaths == {"m1.json"}

\* to_agent of direct create_alert calls
Recipients == {PyStr(FORGE), PyStr(cursor_forge)}

\* from_agent, subject, content and priority of direct create_alert calls
Payloads ==
    {[from_agent |-> PyStr(CLI_CLIO), subject |-> "s1",
      content |-> PyStr(hello), priority |-> PyStr(high)],
     [from_agent |-> PyStr(logan), subject |-> "s2",
      content |-> PyDict(<< <<K_message, PyStr(hello)>> >>), priority |-> PyStr(BOGUS)]}

\* agent of get_alerts, mark_read and clear_alerts
Agents == {FORGE}

\* a message object with the given recipient fields (Absent: no such key)
\* and, when full, the from, subject, body and priority of the first payload
Message(to, cc, full) ==
    LET keys == (IF to.t = "absent" THEN {} ELSE {"to"})
                \cup (IF cc.t = "absent" THEN {} ELSE {"cc"})
                \cup (IF full THEN {"from", "subject", "body", "priority"} ELSE {})
    IN  JsonObject([k \in keys |->
            CASE k = "to" -> to
              [] k = "cc" -> cc
              [] k = "from" -> PyStr(CLI_CLIO)
              [] k = "subject" -> "s1"
              [] k = "body" -> PyStr(hello)
              [] k = "priority" -> PyStr(high)])

\* what the message files of the calls hold
WellFormedMessages ==
    {Message(PyStr(team_brain), Absent, TRUE),
     Message(PyList(<<PyStr(FORGE), PyStr(cursor_forge)>>), PyStr(BOLT), TRUE)}

MalformedMessages ==
    {[kind |-> "missing"], [kind |-> "unreadable"], InvalidJson,
     JsonArray(<<>>),
     Message(PyNone, Absent, TRUE),
     Message(PyList(<<PyStr(BOLT), PyInt(7)>>), Absent, TRUE)}

MessageFiles == WellFormedMessages \cup MalformedMessages

\* what a mailbox file damaged from outside can hold: text that is no JSON,
\* a JSON array, an object without alerts, an alert record lacking fields
CorruptFiles ==
    {InvalidJson,
     JsonArray(<<>>),
     JsonObject([agent |-> FORGE]),
     JsonObject([agent |-> FORGE, alerts |-> <<[id |-> _generate_alert_id(0), read |-> FALSE]>>])}

critical == <<"c","r","i","t","i","c","a","l">>
low == <<"l","o","w">>
nova == <<"n","o","v","a">>
note == <<"n","o","t","e">>

\* a payload like the first one, with another priority
WithPriority(subject, priority) ==
    [from_agent |-> PyStr(CLI_CLIO), subject |-> subject,
     content |-> PyStr(hello), priority |-> PyStr(priority)]

\* source_file and payload of the create_alert calls whose alerts are
\* reported: every priority, two files that can carry CRITICAL
ReportCalls ==
    {[sf |-> "m1.json", p |-> WithPriority("s1", critical)],
     [sf |-> "m2.json", p |-> WithPriority("s2", critical)],
     [sf |-> "m2.json", p |-> WithPriority("s3", high)],
     [sf |-> "m3.json", p |-> WithPriority("s4", low)],
     [sf |-> "m3.json", p |-> WithPriority("s5", BOGUS)]}

\* priority of get_alerts: none, the empty string, spellings of priorities
PriorityFilters ==
    {PyNone, PyStr(<<>>), PyStr(high), PyStr(CRITICAL), PyStr(low), PyStr(BOGUS)}

\* to_agent and source_file of the create_alert calls whose mailboxes the
\* status counts: agents of the roster, a human alias, an unknown agent
StatusCalls ==
    {[to |-> PyStr(FORGE), sf |-> "m1.json"],
     [to |-> PyStr(cursor_forge), sf |-> "m2.json"],
     [to |-> PyStr(BOLT), sf |-> "m1.json"],
     [to |-> PyStr(logan), sf |-> "m1.json"],
     [to |-> PyStr(nova), sf |-> "m1.json"]}

\* agent of the mark_read and clear_alerts calls on these mailboxes
StatusMailboxes == {FORGE, BOLT}

\* agent of the queries: the recipients, and an agent without a mailbox
QueryAgents == {FORGE, BOLT, LOGAN, upper(nova), GEMINI}

\* content of create_alert: texts around the limit of 100 characters, and
\* dicts with and without the fields announcement, message and summary
PreviewContents ==
    {PyStr(<<>>), PyStr(hello),
     PyStr(Rep("x", 99)), PyStr(Rep("x", 100)), PyStr(Rep("x", 101)),
     PyDict(<< <<K_summary, PyStr(Rep("s", 100))>>,
               <<K_message, PyStr(hello)>>,
               <<K_announcement, PyStr(Rep("a", 150))>> >>),
     PyDict(<< <<K_announcement, PyStr(<<>>)>>, <<K_message, PyStr(hello)>> >>),
     PyDict(<< <<K_summary, PyStr(hello)>>, <<K_message, PyStr(Rep("m", 99))>> >>),
     PyDict(<< <<note, PyStr(hello)>>, <<K_summary, PyStr(Rep("s", 120))>> >>),
     PyDict(<< <<note, PyStr(hello)>> >>),
     PyDict(<< <<note, PyStr(Rep("n", 120))>> >>),
     PyDict(<<>>)}

\* a payload whose subject the file cannot encode
SurrogatePayload ==
    [from_agent |-> PyStr(CLI_CLIO), subject |-> Unencodable,
     content |-> PyStr(hello), priority |-> PyStr(high)]

\* a payload like the first one, with another content
WithContent(content) ==
    [from_agent |-> PyStr(CLI_CLIO), subject |-> "s1",
     content |-> content, priority |-> PyStr(high)]

\* messages to two recipients, the sender being one of them: with body and
\* content, with no field but to, with content and no body
InboundMessages ==
    {JsonObject([to |-> PyList(<<PyStr(FORGE), PyStr(CLIO)>>),
                 from |-> PyStr(CLI_CLIO), subject |-> "s1",
                 body |-> PyStr(hello), content |-> PyStr(note),
                 priority |-> PyStr(high)]),
     JsonObject([to |-> PyStr(FORGE)]),
     JsonObject([to |-> PyStr(CLIO), content |-> PyStr(note)])}

\* agent of the mark_read and clear_alerts calls on the recipients' mailboxes
InboundAgents == {FORGE, CLIO}

\* the stems of the request files in the Synapse directory
RequestNames == {"TOOL_REQUEST_a", "TOOL_REQUEST_b"}

\* what a request file holds: an object without msg_id, with a msg_id of its
\* own, with the msg_id a file stem spells, or text that is no JSON
RequestDocs ==
    {JsonObject(<<>>),
     JsonObject([msg_id |-> "X"]),
     JsonObject([msg_id |-> "TOOL_REQUEST_b"]),
     JsonObject([msg_id |-> "Y", body |-> PyStr(hello)]),
     InvalidJson}

\* the lists the glob can return: no file, one file, the two files in
\* either order
RequestFileLists ==
    {<<>>}
    \cup {<<[name |-> n, doc |-> d]>> : n \in RequestNames, d \in RequestDocs}
    \cup {<<[name |-> o[1], doc |-> d1], [name |-> o[2], doc |-> d2]>> :
             o \in {<<"TOOL_REQUEST_a", "TOOL_REQUEST_b">>,
                    <<"TOOL_REQUEST_b", "TOOL_REQUEST_a">>},
             d1 \in RequestDocs, d2 \in RequestDocs}

\* sys.argv[1:] of the runs of the CLI: no subcommand, each subcommand
\* without and with its argument and flag, an unknown subcommand
Argvs ==
    {<<>>, <<<<"b","o","g","u","s">>>>, <<<<"C","H","E","C","K">>, cursor_forge>>}
    \cup {<<c>> : c \in Subcommands}
    \cup {<<c, <<"f","o","r","g","e">>>> : c \in WithArgument \ {Cmd.alert}}
    \cup {<<Cmd.list, FORGE, Flag.all>>, <<Cmd.clear, FORGE, Flag.keep>>,
          <<Cmd.read, FORGE, _generate_alert_id(0)>>,
          <<Cmd.alert, <<"m","1",".","j","s","o","n">>>>, <<Cmd.alert, <<"m","2",".","j","s","o","n">>>>}

\* what the path of the alert subcommand holds
CliMessageFiles ==
    {[kind |-> "missing"], InvalidJson, JsonArray(<<>>),
     JsonObject([to |-> PyStr(FORGE), subject |-> "s1", priority |-> PyStr(high)])}

\* the instants datetime.now() can return during the next call
Instants == {t \in now..(now + 1) : t <= MaxClock}

\* alert_id of mark_read: None, the id of an instant, or an id no alert has
AlertIds == {PyNone} \cup {PyStr(_generate_alert_id(t)) : t \in -1..MaxClock}

\* the processes that call create_alert at the same time
Procs == {"p1", "p2"}

\* a process that is not inside a call
Idle == [pc |-> "idle"]

(***************************************************************************)
(* The state: the files of alerts_dir (files), the clock (now), the        *)
(* create_alert calls that concurrent processes are inside of (calls) and  *)
(* the file TOOL_REQUEST_LOG (master_log).  Each action is one call of an  *)
(* operation; its return value, hook invocations and exception are those   *)
(* of the operator it applies.  A call that raises leaves the files as     *)
(* they were when the exception escaped.                                   *)
(***************************************************************************)
Init ==
    /\ files = <<>>
    /\ now = 0
    /\ calls = [p \in Procs |-> Idle]
    /\ master_log = [kind |-> "missing"]

CreateAlert(to, p, sf, t) ==
    /\ files' = create_alert(files, t, to, p.from_agent, p.subject, p.content,
                             sf, p.priority).files
    /\ now' = t
    /\ UNCHANGED <<calls, master_log>>

CreateAlertsFromSynapseMessage(path, file, t) ==
    /\ files' = create_alerts_from_synapse_message(files, t, path, file).files
    /\ now' = t
    /\ UNCHANGED <<calls, master_log>>

MarkRead(agent, alert_id, t) ==
    /\ files' = mark_read(files, t, agent, alert_id).files
    /\ now' = t
    /\ UNCHANGED <<calls, master_log>>

ClearAlerts(agent, keep_unread, t) ==
    /\ files' = clear_alerts(files, t, agent, keep_unread).files
    /\ now' = t
    /\ UNCHANGED <<calls, master_log>>

GetAlerts(agent, unread_only, priority) ==
    /\ files' = get_alerts(files, agent, unread_only, priority).files
    /\ now' = now
    /\ UNCHANGED <<calls, master_log>>

CheckAndReport(agent, bell, enable_bell) ==
    /\ files' = check_and_report(files, agent, bell, enable_bell).files
    /\ now' = now
    /\ UNCHANGED <<calls, master_log>>

GetAlertCount(agent, unread_only) ==
    /\ files' = get_alert_count(files, agent, unread_only).files
    /\ now' = now
    /\ UNCHANGED <<calls, master_log>>

GetAllAgentsStatus ==
    /\ files' = get_all_agents_status(files).files
    /\ now' = now
    /\ UNCHANGED <<calls, master_log>>

\* the environment overwrites a mailbox file
CorruptMailbox(agent, content) ==
    /\ files' = [f \in DOMAIN files \cup {_get_alert_file(agent)} |->
                    IF f = _get_alert_file(agent) THEN content ELSE files[f]]
    /\ now' = now
    /\ UNCHANGED <<calls, master_log>>

\* variant: the mailbox is loaded again at the save, under a lock
Written_Reloads(fs, c) == Append(_load_alerts(fs, c.to).alerts, c.alert)

\* the alerts a create_alert call saves: those it loaded, and its own
Written(fs, c) == Append(c.alerts, c.alert)

\* create_alert in process p, up to the return of _load_alerts: the Alert is
\* built, which does not depend on the files, and the mailbox is read
LoadStep(p, to, payload, sf, t) ==
    /\ calls[p].pc = "idle"
    /\ calls' = [calls EXCEPT ![p] =
                    [pc |-> "loaded",
                     to |-> NormalizeAgent(to.v),
                     alert |-> create_alert(<<>>, t, to, payload.from_agent,
                                            payload.subject, payload.content,
                                            sf, payload.priority).ret,
                     alerts |-> _load_alerts(files, NormalizeAgent(to.v)).alerts]]
    /\ now' = t
    /\ UNCHANGED <<files, master_log>>

\* create_alert in process p, from the duplicate check to the return: the
\* check and the append work on the list the process loaded
SaveStep(p, t) ==
    /\ calls[p].pc = "loaded"
    /\ LET c == calls[p] IN
       IF c.alert.source_file \in SourceFiles(c.alerts)
       THEN /\ files' = files
            /\ calls' = [calls EXCEPT ![p] =
                  [pc |-> "returned", to |-> c.to, alert |-> c.alert,
                   alerts |-> c.alerts, created |-> FALSE]]
       ELSE /\ files' = _save_alerts(files, c.to, Written(files, c), t)
            /\ calls' = [calls EXCEPT ![p] =
                  [pc |-> "returned", to |-> c.to, alert |-> c.alert,
                   alerts |-> c.alerts, created |-> TRUE]]
    /\ now' = t
    /\ UNCHANGED master_log

\* the caller of process p goes on and may call again
ReturnStep(p) ==
    /\ calls[p].pc = "returned"
    /\ calls' = [calls EXCEPT ![p] = Idle]
    /\ UNCHANGED <<files, now, master_log>>

\* variant: the alerts found in the file at the save are written before
\* those the call loaded
Updated_Merges(fs, c) == _load_alerts(fs, c.to).alerts \o c.alerts

\* the alerts a mark_read or clear_alerts call saves, computed from the
\* list it loaded
Updated(fs, c) ==
    IF c.op = "mark_read" THEN MarkLoop(c.alerts, 1, c.arg, 0).alerts
    ELSE IF c.arg THEN SelectSeq(c.alerts, IsUnread) ELSE <<>>

\* mark_read (arg: alert_id) or clear_alerts (arg: keep_unread) in process
\* p, up to the return of _load_alerts
UpdateLoadStep(p, op, agent, arg) ==
    /\ calls[p].pc = "idle"
    /\ calls' = [calls EXCEPT ![p] =
                    [pc |-> "updating", op |-> op, to |-> agent, arg |-> arg,
                     alerts |-> _load_alerts(files, agent).alerts]]
    /\ UNCHANGED <<files, now, master_log>>

\* mark_read or clear_alerts in process p, from the loop over the loaded
\* list to the return
UpdateSaveStep(p, t) ==
    /\ calls[p].pc = "updating"
    /\ files' = _save_alerts(files, calls[p].to, Updated(files, calls[p]), t)
    /\ calls' = [calls EXCEPT ![p] = Idle]
    /\ now' = t
    /\ UNCHANGED master_log

ScanAndSync(tool_request_files, t) ==
    /\ master_log' = scan_and_sync(master_log, tool_request_files, t).log
    /\ now' = t
    /\ UNCHANGED <<files, calls>>

\* the agents responsible for the log move active request i to the
\* completed requests
CompleteRequest(i) ==
    /\ master_log.kind = "json"
    /\ i \in 1..Len(master_log.v.active_requests)
    /\ master_log' = JsonObject(
          [master_log.v EXCEPT
              !.active_requests =
                  SubSeq(@, 1, i - 1) \o SubSeq(@, i + 1, Len(@)),
              !.completed_requests =
                  Append(@, [master_log.v.active_requests[i] EXCEPT
                                !.status = "COMPLETED"])])
    /\ UNCHANGED <<files, now, calls>>

\* one run of the CLI
Main(argv, file, tool_request_files, t) ==
    /\ files' = main(files, master_log, argv, file, tool_request_files, t).files
    /\ master_log' = main(files, master_log, argv, file, tool_request_files, t).log
    /\ now' = t
    /\ UNCHANGED calls

\* the calls that address one agent's mailbox
NextMailbox ==
    \/ \E to \in Recipients, p \in Payloads, sf \in Paths, t \in Instants :
          CreateAlert(to, p, sf, t)
    \/ \E agent \in Agents, alert_id \in AlertIds, t \in Instants :
          MarkRead(agent, alert_id, t)
    \/ \E agent \in Agents, keep_unread \in BOOLEAN, t \in Instants :
          ClearAlerts(agent, keep_unread, t)
    \/ \E agent \in Agents, unread_only \in BOOLEAN, priority \in {PyNone, PyStr(high)} :
          GetAlerts(agent, unread_only, priority)

Next ==
    \/ NextMailbox
    \/ \E path \in MessagePaths, file \in MessageFiles, t \in Instants :
          CreateAlertsFromSynapseMessage(path, file, t)

NextCorrupt ==
    \/ NextMailbox
    \/ \E agent \in Agents, content \in CorruptFiles :
          CorruptMailbox(agent, content)

\* alerts of every priority in one mailbox, and the calls that report them
NextReport ==
    \/ \E c \in ReportCalls, t \in Instants :
          CreateAlert(PyStr(FORGE), c.p, c.sf, t)
    \/ \E agent \in Agents, alert_id \in AlertIds, t \in Instants :
          MarkRead(agent, alert_id, t)
    \/ \E agent \in Agents, keep_unread \in BOOLEAN, t \in Instants :
          ClearAlerts(agent, keep_unread, t)
    \/ \E agent \in Agents, unread_only \in BOOLEAN, priority \in PriorityFilters :
          GetAlerts(agent, unread_only, priority)
    \/ \E agent \in Agents, unread_only \in BOOLEAN :
          GetAlertCount(agent, unread_only)
    \/ \E agent \in Agents, bell, enable_bell \in BOOLEAN :
          CheckAndReport(agent, bell, enable_bell)

\* the mailboxes of several agents, and the calls that query them
NextStatus ==
    \/ \E c \in StatusCalls, t \in Instants :
          CreateAlert(c.to, WithPriority("s1", high), c.sf, t)
    \/ \E agent \in StatusMailboxes, t \in Instants :
          MarkRead(agent, PyNone, t)
    \/ \E agent \in StatusMailboxes, t \in Instants :
          ClearAlerts(agent, TRUE, t)
    \/ \E agent \in Agents, unread_only \in BOOLEAN :
          GetAlerts(agent, unread_only, PyNone)
    \/ \E agent \in Agents, unread_only \in BOOLEAN :
          GetAlertCount(agent, unread_only)
    \/ \E agent \in Agents, enable_bell \in BOOLEAN :
          CheckAndReport(agent, TRUE, enable_bell)
    \/ GetAllAgentsStatus

\* alerts of every kind of content in one mailbox
NextPreview ==
    \/ \E content \in PreviewContents, sf \in Paths, t \in Instants :
          CreateAlert(PyStr(FORGE), WithContent(content), sf, t)
    \/ \E agent \in Agents, t \in Instants :
          ClearAlerts(agent, FALSE, t)
    \/ \E agent \in Agents, unread_only \in BOOLEAN :
          GetAlerts(agent, unread_only, PyNone)

\* the calls on one mailbox, a subject with a lone surrogate among them
NextEncoding ==
    \/ NextMailbox
    \/ \E to \in Recipients, sf \in Paths, t \in Instants :
          CreateAlert(to, SurrogatePayload, sf, t)

\* two processes inside create_alert for the same agent
NextRace ==
    \/ \E p \in Procs, sf \in Paths, t \in Instants :
          LoadStep(p, PyStr(cursor_forge), WithPriority("s1", high), sf, t)
    \/ \E p \in Procs, t \in Instants : SaveStep(p, t)
    \/ \E p \in Procs : ReturnStep(p)

\* messages fanned out to two mailboxes, and the calls on each of them
NextInbound ==
    \/ \E file \in InboundMessages, t \in Instants :
          CreateAlertsFromSynapseMessage("m1.json", file, t)
    \/ \E t \in Instants :
          CreateAlert(PyStr(FORGE), WithPriority("s2", high), "m2.json", t)
    \/ \E agent \in InboundAgents, t \in Instants :
          MarkRead(agent, PyNone, t)
    \/ \E agent \in InboundAgents, keep_unread \in BOOLEAN, t \in Instants :
          ClearAlerts(agent, keep_unread, t)

\* the scans of the tool-request importer, and the upkeep of its log
NextRequests ==
    \/ \E tool_request_files \in RequestFileLists, t \in Instants :
          ScanAndSync(tool_request_files, t)
    \/ CompleteRequest(1)

\* the runs of the CLI, the mailbox file being damaged from outside
NextCli ==
    \/ \E argv \in Argvs, file \in CliMessageFiles, t \in Instants :
          Main(argv, file, <<[name |-> "TOOL_REQUEST_a", doc |-> JsonObject(<<>>)]>>, t)
    \/ \E agent \in Agents, content \in CorruptFiles :
          CorruptMailbox(agent, content)

\* processes inside create_alert, mark_read and clear_alerts for one agent
NextInterleaved ==
    \/ \E p \in Procs, sf \in Paths, t \in Instants :
          LoadStep(p, PyStr(cursor_forge), WithPriority("s1", high), sf, t)
    \/ \E p \in Procs, t \in Instants : SaveStep(p, t)
    \/ \E p \in Procs : ReturnStep(p)
    \/ \E p \in Procs : UpdateLoadStep(p, "mark_read", FORGE, PyNone)
    \/ \E p \in Procs, keep_unread \in BOOLEAN :
          UpdateLoadStep(p, "clear_alerts", FORGE, keep_unread)
    \/ \E p \in Procs, t \in Instants : UpdateSaveStep(p, t)

\* every operation, over the mailboxes of all recipients
Spec == Init /\ [][Next]_vars

\* the operations on one agent's mailbox
SpecMailbox == Init /\ [][NextMailbox]_vars

\* the operations on one agent's mailbox, the file being damaged from outside
SpecCorrupt == Init /\ [][NextCorrupt]_vars

\* the report and the filters over a mailbox of alerts of every priority
SpecReport == Init /\ [][NextReport]_vars

\* the operations on one agent's mailbox, with a text utf-8 cannot encode
SpecEncoding == Init /\ [][NextEncoding]_vars

\* the queries over the mailboxes of several agents
SpecStatus == Init /\ [][NextStatus]_vars

\* create_alert over the kinds of content
SpecPreview == Init /\ [][NextPreview]_vars

\* the ingestion of messages with and without their optional fields
SpecInbound == Init /\ [][NextInbound]_vars

\* the tool-request importer over its master log
SpecRequests == Init /\ [][NextRequests]_vars

\* the command line over one agent's mailbox
SpecCli == Init /\ [][NextCli]_vars

\* the three mutations by concurrent processes, interleaved at the load
SpecInterleaved == Init /\ [][NextInterleaved]_vars

\* create_alert calls of concurrent processes, interleaved at the load
SpecRace == Init /\ [][NextRace]_vars

(***************************************************************************)
(* Vocabulary of the properties.  A property about a call quantifies over  *)
(* the inputs of the call and speaks of the result r of applying the       *)
(* operation in the current state, which is the transition the action      *)
(* takes from that state.                                                  *)
(***************************************************************************)
\* the alert records a mailbox file holds
Stored(fs, f) ==
    IF f \in DOMAIN fs /\ fs[f].kind = "json" /\ fs[f].t = "dict"
       /\ "alerts" \in DOMAIN fs[f].v
    THEN fs[f].v.alerts ELSE <<>>

\* how many alerts of box carry source_file sf
CountOf(box, sf) == Cardinality({i \in 1..Len(box) : box[i].source_file = sf})

\* the positions of the unread alerts of box
UnreadAt(box) == {i \in 1..Len(box) : box[i].read = FALSE}

NotRead(a) == a.read = FALSE

\* the elements of a sequence
Elements(seq) == {seq[i] : i \in 1..Len(seq)}

\* the mailbox file a recipient name of create_alert is stored in
MailboxOf(name) == _get_alert_file(NormalizeAgent(name))

\* the six agents a broadcast reaches
Six == <<FORGE, ATLAS, CLIO, NEXUS, IRIS, PORTER>>

SixSet == Elements(Six)

\* a to or cc field as the sequence of its names
Names(x) ==
    IF x.t = "absent" THEN <<>>
    ELSE IF x.t = "str" THEN <<x.v>>
    ELSE [i \in 1..Len(x.v) |-> x.v[i].v]

\* the to_agent of the alerts expected for a sequence of recipient names
RECURSIVE Expanded(_)
Expanded(names) ==
    IF names = <<>> THEN <<>>
    ELSE (IF upper(names[1]) = ALL \/ upper(names[1]) = TEAM_BRAIN
          THEN Six ELSE <<NormalizeAgent(names[1])>>)
         \o Expanded(Tail(names))

\* the mailbox files a well-formed message addresses
Addressed(file) ==
    {_get_alert_file(n) :
        n \in Elements(Expanded(Names(MsgGet(file.v, "to", Absent))
                                \o Names(MsgGet(file.v, "cc", Absent))))}

ToAgents(alerts) == [i \in 1..Len(alerts) |-> alerts[i].to_agent]

(***************************************************************************)
(* C1: starting from empty mailboxes, after any sequence of create_alert,  *)
(* create_alerts_from_synapse_message, mark_read and clear_alerts calls,   *)
(* every mailbox holds at most one Alert per distinct source_file.         *)
(***************************************************************************)
C1_OneAlertPerSourceFile ==
    \A f \in DOMAIN files :
        \A i, j \in 1..Len(Stored(files, f)) :
            Stored(files, f)[i].source_file = Stored(files, f)[j].source_file
                => i = j

\* a mailbox that holds both source files, one of them read, next to
\* mailboxes a fan-out created
C1_Witness ==
    /\ Len(Stored(files, FORGE)) = 2
    /\ \E i \in 1..2 : Stored(files, FORGE)[i].read
    /\ BOLT \in DOMAIN files
    /\ ATLAS \in DOMAIN files

(***************************************************************************)
(* C2: a second create_alert, or a second fan-out, with the same           *)
(* source_file for the same recipient adds nothing, whatever subject,      *)
(* sender, content or priority it carries: the recipient's mailbox is left *)
(* as the first call left it and holds exactly one Alert of that           *)
(* source_file.                                                            *)
(***************************************************************************)
\* the messages of the second fan-out: other fields, other recipient lists
SecondMessages ==
    {Message(PyStr(team_brain), Absent, FALSE),
     Message(PyList(<<PyStr(FORGE)>>), PyList(<<PyStr(BOLT), PyStr(ALL)>>), FALSE)}

C2_SecondIngestionAddsNothing ==
    /\ \A to1 \in Recipients, p1 \in Payloads, sf \in Paths, t1 \in Instants :
         \A r1 \in {create_alert(files, t1, to1, p1.from_agent, p1.subject,
                                 p1.content, sf, p1.priority)} :
           \A to2 \in Recipients, p2 \in Payloads :
             \A r2 \in {create_alert(r1.files, t1 + 1, to2, p2.from_agent,
                                     p2.subject, p2.content, sf, p2.priority)} :
                MailboxOf(to1.v) = MailboxOf(to2.v)
                   => /\ r2.exc = "none"
                      /\ r2.files = r1.files
                      /\ CountOf(Stored(r2.files, MailboxOf(to2.v)), sf) = 1
    /\ \A path \in MessagePaths, f1 \in WellFormedMessages, t1 \in Instants :
         \A r1 \in {create_alerts_from_synapse_message(files, t1, path, f1)} :
           \A f2 \in SecondMessages :
             \A r2 \in {create_alerts_from_synapse_message(r1.files, t1 + 1, path, f2)} :
                \A f \in Addressed(f1) \cap Addressed(f2) :
                   /\ r2.files[f] = r1.files[f]
                   /\ CountOf(Stored(r2.files, f), path) = 1

\* the source file is in the mailbox under another subject than the second
\* call would carry, and the clock has moved since it was written
C2_Witness ==
    /\ CountOf(Stored(files, FORGE), "m2.json") = 1
    /\ \E i \in 1..Len(Stored(files, FORGE)) :
          /\ Stored(files, FORGE)[i].source_file = "m2.json"
          /\ Stored(files, FORGE)[i].subject = "s1"
          /\ Stored(files, FORGE)[i].timestamp < now

(***************************************************************************)
(* C3: create_alert with a source_file that an Alert of the target mailbox *)
(* carries has no side effect: no file is written (alerts, read flags,     *)
(* order and envelope as before), _trigger_bell is not invoked, and the    *)
(* Alert returned is the one built for this call, which is not stored.     *)
(***************************************************************************)
C3_DuplicateCreateHasNoSideEffect ==
    \A to \in Recipients, p \in Payloads, sf \in Paths, t \in Instants :
        \A r \in {create_alert(files, t, to, p.from_agent, p.subject, p.content,
                               sf, p.priority)} :
            CountOf(Stored(files, MailboxOf(to.v)), sf) > 0
              => /\ r.exc = "none"
                 /\ r.files = files
                 /\ r.hook = 0
                 /\ r.ret.source_file = sf
                 /\ r.ret.timestamp = t
                 /\ r.ret.subject = p.subject
                 /\ r.ret.read = FALSE

\* a read Alert is stored, written at an earlier instant than the duplicate
\* call would write
C3_Witness ==
    /\ FORGE \in DOMAIN files
    /\ files[FORGE].v.last_updated < now
    /\ \E i \in 1..Len(Stored(files, FORGE)) :
          /\ Stored(files, FORGE)[i].source_file = "m1.json"
          /\ Stored(files, FORGE)[i].read

(***************************************************************************)
(* C4: a message whose recipient case-insensitively equals ALL or          *)
(* TEAM_BRAIN yields exactly one Alert for each of FORGE, ATLAS, CLIO,     *)
(* NEXUS, IRIS, PORTER: the returned list has those six recipients, each   *)
(* of the six mailboxes holds one Alert of the message, and no other       *)
(* mailbox file is created or changed.                                     *)
(***************************************************************************)
BroadcastSpellings == {ALL, TEAM_BRAIN, team_brain, <<"A","l","l">>}

ToFields == {Absent, PyStr(FORGE), PyStr(team_brain), PyList(<<>>),
             PyList(<<PyStr(FORGE), PyStr(cursor_forge)>>)}

CcFields == {Absent, PyStr(BOLT), PyList(<<PyStr(ALL), PyStr(BOLT), PyStr(BOLT)>>)}

C5_OneAlertPerExpandedRecipientInOrder ==
    \A to \in ToFields, cc \in CcFields, path \in MessagePaths, t \in Instants :
        \A r \in {create_alerts_from_synapse_message(files, t, path,
                                                     Message(to, cc, FALSE))} :
            /\ r.exc = "none"
            /\ ToAgents(r.ret) = Expanded(Names(to) \o Names(cc))
            /\ \A i \in 1..Len(r.ret) : r.ret[i].source_file = path

\* a message with a repeated recipient and a cc has been ingested, so that
\* ingesting it again is a run of duplicate no-ops
C5_Witness ==
    /\ BOLT \in DOMAIN files
    /\ \E i \in 1..Len(Stored(files, BOLT)) :
          /\ Stored(files, BOLT)[i].subject = "s1"
          /\ Stored(files, BOLT)[i].priority = HIGH
    /\ \E i \in 1..Len(Stored(files, FORGE)) :
          /\ Stored(files, FORGE)[i].subject = "s1"
          /\ Stored(files, FORGE)[i].source_file = "m1.json"

(***************************************************************************)
(* C6: when the inbound message cannot be parsed (the file is missing or   *)
(* unreadable, is not valid JSON, or is JSON of malformed structure),      *)
(* create_alerts_from_synapse_message returns an empty list, does not      *)
(* raise, and leaves every mailbox unchanged.                              *)
(***************************************************************************)
C6_UnparseableMessageGivesEmptyList ==
    \A path \in MessagePaths, file \in MalformedMessages, t \in Instants :
        \A r \in {create_alerts_from_synapse_message(files, t, path, file)} :
            /\ r.exc = "none"
            /\ r.ret = <<>>
            /\ r.files = files

(***************************************************************************)
(* C7: loading a mailbox whose file does not exist or is corrupt (invalid  *)
(* JSON, or JSON of malformed structure) returns an empty sequence and     *)
(* never fails, and get_alerts, mark_read, clear_alerts and create_alert   *)
(* then proceed as on an empty mailbox.                                    *)
(***************************************************************************)
C7_CorruptMailboxLoadsAsEmpty ==
    \A agent \in Agents :
        (_get_alert_file(agent) \notin DOMAIN files
            \/ files[_get_alert_file(agent)] \in CorruptFiles)
          => /\ _load_alerts(files, agent) = [exc |-> "none", alerts |-> <<>>]
             /\ get_alerts(files, agent, FALSE, PyNone).exc = "none"
             /\ get_alerts(files, agent, FALSE, PyNone).ret = <<>>
             /\ \A t \in Instants :
                  /\ mark_read(files, t, agent, PyNone).exc = "none"
                  /\ mark_read(files, t, agent, PyNone).ret = 0
                  /\ clear_alerts(files, t, agent, FALSE).exc = "none"
                  /\ clear_alerts(files, t, agent, FALSE).ret = 0

(***************************************************************************)
(* C8: mark_read(agent, alert_id) with an id sets read on exactly one      *)
(* Alert, the first in stored order that has the id and is unread, and     *)
(* returns 1; when no unread Alert has the id it changes nothing and       *)
(* returns 0.  Afterwards get_alerts(agent, unread_only=True) returns      *)
(* exactly the other unread Alerts.                                        *)
(***************************************************************************)
C8_MarkReadByIdMarksFirstUnreadMatch ==
    \A agent \in Agents, alert_id \in AlertIds \ {PyNone}, t \in Instants :
        \A r \in {mark_read(files, t, agent, alert_id)} :
            LET pre == Stored(files, _get_alert_file(agent))
                post == Stored(r.files, _get_alert_file(agent))
                hits == {i \in UnreadAt(pre) : pre[i].id = alert_id.v}
                first == CHOOSE i \in hits : \A j \in hits : i <= j
                still == IF hits = {} THEN UnreadAt(pre) ELSE UnreadAt(pre) \ {first}
            IN  /\ r.exc = "none"
                /\ IF hits = {}
                   THEN r.ret = 0 /\ post = pre
                   ELSE r.ret = 1 /\ post = [pre EXCEPT ![first].read = TRUE]
                /\ \A g \in {get_alerts(r.files, agent, TRUE, PyNone)} :
                      /\ Len(g.ret) = Cardinality(still)
                      /\ Elements(g.ret) = {pre[i] : i \in still}

\* two Alerts created in the same instant share their id; a mark_read by
\* that id has marked the first and left the second unread
C8_Witness ==
    /\ Len(Stored(files, FORGE)) = 2
    /\ Stored(files, FORGE)[1].id = Stored(files, FORGE)[2].id
    /\ Stored(files, FORGE)[1].read
    /\ ~Stored(files, FORGE)[2].read

(***************************************************************************)
(* C9: mark_read(agent) without an id sets read on every unread Alert and  *)
(* returns the number of Alerts that went from unread to read, Alerts      *)
(* already read not being counted; afterwards the mailbox has no unread    *)
(* Alert and an immediately repeated call returns 0.                       *)
(***************************************************************************)
C9_MarkReadAllCountsTransitions ==
    \A agent \in Agents, t \in Instants :
        \A r \in {mark_read(files, t, agent, PyNone)} :
            LET pre == Stored(files, _get_alert_file(agent))
                post == Stored(r.files, _get_alert_file(agent))
            IN  /\ r.exc = "none"
                /\ r.ret = Cardinality(UnreadAt(pre))
                /\ post = [i \in 1..Len(pre) |-> [pre[i] EXCEPT !.read = TRUE]]
                /\ UnreadAt(post) = {}
                /\ \A t2 \in t..(t + 1) :
                      mark_read(r.files, t2, agent, PyNone).ret = 0

\* a mailbox of one read and one unread Alert: the call counts one
C9_Witness ==
    /\ Len(Stored(files, FORGE)) = 2
    /\ ~Stored(files, FORGE)[1].read
    /\ Stored(files, FORGE)[2].read

(***************************************************************************)
(* C10: clear_alerts(agent, keep_unread=True) retains exactly the unread   *)
(* Alerts in their stored order and removes the read ones;                 *)
(* clear_alerts(agent, keep_unread=False) removes every Alert; the return  *)
(* value is the number of Alerts removed, and the resulting mailbox is     *)
(* what a following get_alerts returns.                                    *)
(***************************************************************************)
C10_ClearRemovesReadOrAll ==
    \A agent \in Agents, keep_unread \in BOOLEAN, t \in Instants :
        \A r \in {clear_alerts(files, t, agent, keep_unread)} :
            LET pre == Stored(files, _get_alert_file(agent))
                post == Stored(r.files, _get_alert_file(agent))
                expected == IF keep_unread THEN SelectSeq(pre, NotRead) ELSE <<>>
            IN  /\ r.exc = "none"
                /\ post = expected
                /\ r.ret = Len(pre) - Len(expected)
                /\ r.ret = IF keep_unread
                           THEN Len(pre) - Cardinality(UnreadAt(pre))
                           ELSE Len(pre)
                /\ \A g \in {get_alerts(r.files, agent, FALSE, PyNone)} :
                      /\ Len(g.ret) = Len(expected)
                      /\ Elements(g.ret) = Elements(expected)

\* a mailbox of a read Alert followed by an unread one with another id
C10_Witness ==
    /\ Len(Stored(files, FORGE)) = 2
    /\ Stored(files, FORGE)[1].read
    /\ ~Stored(files, FORGE)[2].read
    /\ Stored(files, FORGE)[1].id # Stored(files, FORGE)[2].id

C12_QueriesLeaveMailboxesUnchanged ==
    /\ \A agent \in QueryAgents, flag \in BOOLEAN :
          /\ \A priority \in {PyNone, PyStr(high)} :
                \A r \in {get_alerts(files, agent, flag, priority)} :
                    r.exc = "none" /\ r.files = files
          /\ \A r \in {get_alert_count(files, agent, flag)} :
                r.exc = "none" /\ r.files = files
          /\ \A enable_bell \in BOOLEAN :
                \A r \in {check_and_report(files, agent, flag, enable_bell)} :
                    r.exc = "none" /\ r.files = files
    /\ \A r \in {get_all_agents_status(files)} :
          r.exc = "none" /\ r.files = files

\* queried mailboxes with unread alerts, next to an agent without a file
C12_Witness ==
    /\ Len(Stored(files, FORGE)) = 2
    /\ UnreadAt(Stored(files, FORGE)) = {2}
    /\ UnreadAt(Stored(files, LOGAN)) = {1}
    /\ GEMINI \notin DOMAIN files

(***************************************************************************)
(* C13: check_and_report returns the no-new-messages line exactly when the *)
(* agent has no unread Alert; otherwise the count of its header is the     *)
(* number of unread Alerts, every unread Alert has its entry in exactly    *)
(* one of the three groups, and all CRITICAL entries come before all HIGH  *)
(* entries, which come before all NORMAL/LOW entries.                      *)
(***************************************************************************)
\* the positions of the lines of a report with the given text
LinesOf(lines, text) == {k \in 1..Len(lines) : lines[k].text = text}

\* the entries of the groups, each by the position of the line that only
\* this group writes for an alert (for NORMAL: a sender line no preview
\* line follows)
CriticalEntries(lines) == LinesOf(lines, "  File: {source_file}")

HighEntries(lines) == LinesOf(lines, "  Preview: {preview[:50]}...")

NormalEntries(lines) ==
    {k \in LinesOf(lines, "  From: {from_agent} - {subject}") :
        (k + 1) \notin HighEntries(lines)}

\* the subjects of the unread alerts of box with a priority of prios
UnreadSubjects(box, prios) ==
    {box[i].subject : i \in {j \in UnreadAt(box) : box[j].priority \in prios}}

C13_ReportGroupsUnreadByPriority ==
    \A agent \in Agents, bell, enable_bell \in BOOLEAN :
        \A r \in {check_and_report(files, agent, bell, enable_bell)} :
            LET box == Stored(files, _get_alert_file(agent))
                lines == r.ret
                C == CriticalEntries(lines)
                H == HighEntries(lines)
                N == NormalEntries(lines)
            IN  /\ r.exc = "none"
                /\ (lines = <<NoNewMessages(agent)>>) <=> (UnreadAt(box) = {})
                /\ UnreadAt(box) # {} =>
                     /\ lines[2].text = "[!] {len(alerts)} NEW MESSAGE(S) FOR {agent}"
                     /\ lines[2].args[1] = Cardinality(UnreadAt(box))
                     /\ Cardinality(C) + Cardinality(H) + Cardinality(N)
                           = Cardinality(UnreadAt(box))
                     /\ {lines[k - 2].args[1] : k \in C} = UnreadSubjects(box, {CRITICAL})
                     /\ {lines[k - 1].args[2] : k \in H} = UnreadSubjects(box, {HIGH})
                     /\ {lines[k].args[2] : k \in N} = UnreadSubjects(box, {NORMAL, LOW})
                     /\ \A c \in C, h \in H : c < h
                     /\ \A h \in H, n \in N : h < n
                     /\ \A c \in C, n \in N : c < n

\* three unread alerts stored in the order LOW, HIGH, CRITICAL
C13_Witness ==
    LET box == Stored(files, FORGE) IN
    /\ Len(box) = 3
    /\ UnreadAt(box) = {1, 2, 3}
    /\ box[1].priority = LOW
    /\ box[2].priority = HIGH
    /\ box[3].priority = CRITICAL

(***************************************************************************)
(* C14: create_alert normalizes to_agent and from_agent by uppercasing and *)
(* then stripping the prefixes CURSOR_ and CLI_, in that order: a leading  *)
(* CURSOR_ and then a leading CLI_ are each removed at most once, and      *)
(* occurrences of these strings elsewhere in the name are kept.            *)
(***************************************************************************)
\* s without prefix when s starts with it, s otherwise
StripPrefix(s, prefix) ==
    IF Len(s) >= Len(prefix) /\ SubSeq(s, 1, Len(prefix)) = prefix
    THEN SubSeq(s, Len(prefix) + 1, Len(s))
    ELSE s

PrefixesStripped(name) == StripPrefix(StripPrefix(upper(name), CURSOR_), CLI_)

\* names with the prefixes in front, repeated, in the other order, inside
AgentNames ==
    {cursor_forge,
     <<"c","l","i","_","c","l","i","o">>,
     <<"C","U","R","S","O","R","_","C","L","I","_","B","O","L","T">>,
     <<"C","U","R","S","O","R","_","C","U","R","S","O","R","_","X">>,
     <<"C","L","I","_","C","U","R","S","O","R","_","X">>,
     <<"F","O","R","G","E","_","C","L","I","_","2">>}

C14_NormalizationStripsPrefixesOnly ==
    \A to \in AgentNames, from \in AgentNames, sf \in Paths, t \in Instants :
        \A r \in {create_alert(files, t, PyStr(to), PyStr(from), "s1",
                               PyStr(hello), sf, PyStr(NORMAL))} :
            /\ r.exc = "none"
            /\ r.ret.to_agent = PrefixesStripped(to)
            /\ r.ret.from_agent = PrefixesStripped(from)

(***************************************************************************)
(* C15: a malformed priority never aborts alert creation: for every        *)
(* priority value handed to create_alert, directly or as the priority      *)
(* field of a message, a string or not, the Alert is created with the      *)
(* uppercase form of the value if that is LOW, NORMAL, HIGH or CRITICAL    *)
(* and with NORMAL otherwise; every stored Alert has one of these.         *)
(***************************************************************************)
PriorityValues ==
    {PyStr(high), PyStr(LOW), PyStr(BOGUS), PyStr(<<>>), PyInt(5), PyNone}

LenientPriority(value) ==
    IF value.t = "str" /\ upper(value.v) \in {LOW, NORMAL, HIGH, CRITICAL}
    THEN upper(value.v) ELSE NORMAL

C15_MalformedPriorityNeverAborts ==
    /\ \A priority \in PriorityValues, sf \in Paths, t \in Instants :
          /\ \A r \in {create_alert(files, t, PyStr(FORGE), PyStr(CLI_CLIO), "s1",
                                    PyStr(hello), sf, priority)} :
                /\ r.exc = "none"
                /\ r.ret.priority = LenientPriority(priority)
          /\ \A r \in {create_alerts_from_synapse_message(files, t, sf,
                          JsonObject([to |-> PyStr(FORGE), priority |-> priority]))} :
                /\ r.exc = "none"
                /\ Len(r.ret) = 1
                /\ r.ret[1].priority = LenientPriority(priority)
    /\ \A f \in DOMAIN files : \A i \in 1..Len(Stored(files, f)) :
          Stored(files, f)[i].priority \in {LOW, NORMAL, HIGH, CRITICAL}

(***************************************************************************)
(* Vocabulary of the preview properties                                    *)
(***************************************************************************)
\* a text as a preview shows it
Cut(text) ==
    IF Len(text) >= 100 THEN SubSeq(text, 1, 97) \o <<".", ".", ".">> ELSE text

\* the texts of the fields of dict d with key k
FieldTexts(d, k) == {d[i][2].v : i \in {j \in 1..Len(d) : d[j][1] = k}}

\* the only element of a set of one element
TheOne(S) == CHOOSE x \in S : TRUE

(***************************************************************************)
(* C16: for every content (plain text of any length, or a mapping whose    *)
(* selected field has any length) the preview has at most 100 characters:  *)
(* a source text shorter than 100 characters is kept unchanged, one of 100 *)
(* characters or more becomes its first 97 characters followed by the      *)
(* three-character ellipsis.                                               *)
(***************************************************************************)
C16_PreviewAtMost100Characters ==
    /\ \A content \in PreviewContents, sf \in Paths, t \in Instants :
          \A r \in {create_alert(files, t, PyStr(FORGE), PyStr(CLI_CLIO), "s1",
                                 content, sf, PyStr(high))} :
              LET sources ==
                      IF content.t = "str" THEN {content.v}
                      ELSE FieldTexts(content.v, K_announcement)
                           \cup FieldTexts(content.v, K_message)
                           \cup FieldTexts(content.v, K_summary)
                           \cup {DictStr(content.v)}
              IN  /\ r.exc = "none"
                  /\ Len(r.ret.preview) <= 100
                  /\ \E src \in sources :
                        /\ Len(src) < 100 => r.ret.preview = src
                        /\ Len(src) >= 100 =>
                              r.ret.preview = SubSeq(src, 1, 97) \o <<".", ".", ".">>
    /\ \A f \in DOMAIN files : \A i \in 1..Len(Stored(files, f)) :
          Len(Stored(files, f)[i].preview) <= 100

\* the mailbox holds a preview that was cut and one of 99 characters
C16_Witness ==
    LET box == Stored(files, FORGE) IN
    /\ Len(box) = 2
    /\ Len(box[1].preview) = 100
    /\ SubSeq(box[1].preview, 97, 100) = <<"x", ".", ".", ".">>
    /\ box[2].preview = Rep("x", 99)

(***************************************************************************)
(* C17: when content is a mapping, the preview is taken from the first     *)
(* present field among announcement, message, summary in that order, and   *)
(* from the stringified mapping only when none of the three is present.    *)
(***************************************************************************)
C17_PreviewFieldPriority ==
    \A content \in {c \in PreviewContents : c.t = "dict"}, sf \in Paths, t \in Instants :
        \A r \in {create_alert(files, t, PyStr(FORGE), PyStr(CLI_CLIO), "s1",
                               content, sf, PyStr(high))} :
            LET d == content.v
                announcement == FieldTexts(d, K_announcement)
                message == FieldTexts(d, K_message)
                summary == FieldTexts(d, K_summary)
            IN  /\ r.exc = "none"
                /\ r.ret.preview =
                      Cut(IF announcement # {} THEN TheOne(announcement)
                          ELSE IF message # {} THEN TheOne(message)
                          ELSE IF summary # {} THEN TheOne(summary)
                          ELSE DictStr(d))

\* the mailbox holds a preview taken from an announcement that the dict
\* lists after its summary and message, and one of a stringified dict
C17_Witness ==
    LET box == Stored(files, FORGE) IN
    /\ Len(box) = 2
    /\ box[1].preview = Rep("a", 97) \o <<".", ".", ".">>
    /\ Len(box[2].preview) > 0
    /\ box[2].preview[1] = "{"

(***************************************************************************)
(* C18: saving a sequence X of Alerts for an agent and then loading the    *)
(* agent's mailbox returns the Alerts of X, field for field and in the     *)
(* same order, for every X (the empty sequence and Alerts with read=true   *)
(* included); Alert.from_dict(a.to_dict()) equals a.                       *)
(***************************************************************************)
SampleAlerts ==
    {[id |-> _generate_alert_id(0), timestamp |-> 0, from_agent |-> CLIO,
      to_agent |-> FORGE, subject |-> "s1", preview |-> hello,
      source_file |-> "m1.json", priority |-> HIGH, read |-> FALSE],
     [id |-> _generate_alert_id(1), timestamp |-> 1, from_agent |-> LOGAN,
      to_agent |-> FORGE, subject |-> "s2", preview |-> <<>>,
      source_file |-> "m2.json", priority |-> LOW, read |-> TRUE],
     [id |-> _generate_alert_id(1), timestamp |-> 1, from_agent |-> CLIO,
      to_agent |-> FORGE, subject |-> Unencodable, preview |-> hello,
      source_file |-> "m3.json", priority |-> HIGH, read |-> FALSE]}

\* the sequences of at most two sample alerts, and the stored one
SampleSequences ==
    {<<>>} \cup {<<a>> : a \in SampleAlerts}
           \cup {<<a, b>> : a \in SampleAlerts, b \in SampleAlerts}
           \cup {Stored(files, FORGE)}

\* agents as the caller spells them
SaveAgents == {FORGE, <<"n","o"," ","v","a">>}

C18_SaveThenLoadRoundTrip ==
    /\ \A agent \in SaveAgents, X \in SampleSequences, t \in Instants :
          _load_alerts(_save_alerts(files, agent, X, t), agent)
             = [exc |-> "none", alerts |-> X]
    /\ \A X \in SampleSequences : \A i \in 1..Len(X) :
          from_dict(to_dict(X[i])) = X[i]

(***************************************************************************)
(* C19: after every operation that writes a mailbox (a create_alert that   *)
(* persists, mark_read, clear_alerts) the persisted envelope agrees with   *)
(* the persisted alerts: alert_count is the number of Alerts in the file,  *)
(* unread_count the number of them with read=false, and the file holds     *)
(* the full new mailbox.                                                   *)
(***************************************************************************)
\* the envelope of the document agrees with its alerts
EnvelopeConsistent(doc) ==
    /\ doc.kind = "json"
    /\ doc.t = "dict"
    /\ doc.v.alert_count = Len(doc.v.alerts)
    /\ doc.v.unread_count = Cardinality(UnreadAt(doc.v.alerts))

C19_EnvelopeMatchesAlerts ==
    /\ \A f \in DOMAIN files : EnvelopeConsistent(files[f])
    /\ \A to \in Recipients, p \in Payloads \cup {SurrogatePayload},
          sf \in Paths, t \in Instants :
          \A r \in {create_alert(files, t, to, p.from_agent, p.subject, p.content,
                                 sf, p.priority)} :
              r.files # files =>
                 /\ EnvelopeConsistent(r.files[MailboxOf(to.v)])
                 /\ r.files[MailboxOf(to.v)].v.last_updated = t
                 /\ Stored(r.files, MailboxOf(to.v))
                       = Append(Stored(files, MailboxOf(to.v)), r.ret)
    /\ \A agent \in Agents, t \in Instants :
          /\ \A alert_id \in AlertIds :
                \A r \in {mark_read(files, t, agent, alert_id)} :
                    /\ EnvelopeConsistent(r.files[_get_alert_file(agent)])
                    /\ r.files[_get_alert_file(agent)].v.last_updated = t
                    /\ r.files[_get_alert_file(agent)].v.alert_count
                          = Len(Stored(files, _get_alert_file(agent)))
          /\ \A keep_unread \in BOOLEAN :
                \A r \in {clear_alerts(files, t, agent, keep_unread)} :
                    /\ EnvelopeConsistent(r.files[_get_alert_file(agent)])
                    /\ r.files[_get_alert_file(agent)].v.last_updated = t
                    /\ r.files[_get_alert_file(agent)].v.alert_count
                          = Len(Stored(files, _get_alert_file(agent))) - r.ret

(***************************************************************************)
(* C20: get_all_agents_status returns a mapping whose keys are exactly the *)
(* agents of the known roster minus ALL, TEAM_BRAIN, LOGAN and LOGAN_SMITH *)
(* that have a strictly positive number of unread Alerts, each mapped to   *)
(* that number; an agent with no unread Alert, or outside that roster,     *)
(* never appears.                                                          *)
(***************************************************************************)
CountedRoster == {FORGE, ATLAS, CLIO, NEXUS, BOLT, GEMINI, IRIS, PORTER}

C20_StatusListsRosterAgentsWithUnread ==
    \A r \in {get_all_agents_status(files)} :
        /\ r.exc = "none"
        /\ DOMAIN r.ret =
              {a \in CountedRoster : UnreadAt(Stored(files, a)) # {}}
        /\ \A a \in DOMAIN r.ret :
              r.ret[a] = Cardinality(UnreadAt(Stored(files, a)))

\* a roster agent with two unread alerts, one whose only alert is read, the
\* human alias and an unknown agent with one unread alert each
C20_Witness ==
    /\ UnreadAt(Stored(files, FORGE)) = {1, 2}
    /\ Len(Stored(files, BOLT)) = 1
    /\ UnreadAt(Stored(files, BOLT)) = {}
    /\ UnreadAt(Stored(files, LOGAN)) = {1}
    /\ UnreadAt(Stored(files, upper(nova))) = {1}

(***************************************************************************)
(* C21: get_alert_count(agent, unread_only) is the number of Alerts that   *)
(* get_alerts(agent, unread_only=unread_only) returns; with the default    *)
(* argument (unread_only=True) it is the number of unread Alerts, which is *)
(* the unread_count of the envelope the mailbox file holds.                *)
(***************************************************************************)
C21_CountIsLengthOfGetAlerts ==
    \A agent \in Agents :
        /\ \A unread_only \in BOOLEAN :
              \A c \in {get_alert_count(files, agent, unread_only)} :
                  /\ c.exc = "none"
                  /\ c.ret = Len(get_alerts(files, agent, unread_only, PyNone).ret)
        /\ \A c \in {get_alert_count(files, agent, TRUE)} :
              /\ c.ret = Cardinality(UnreadAt(Stored(files, _get_alert_file(agent))))
              /\ _get_alert_file(agent) \in DOMAIN files =>
                    c.ret = files[_get_alert_file(agent)].v.unread_count

\* a mailbox of three alerts, one of them read: the two counts differ
C21_Witness ==
    /\ Len(Stored(files, FORGE)) = 3
    /\ Cardinality(UnreadAt(Stored(files, FORGE))) = 2

(***************************************************************************)
(* C22: on an agent that has no mailbox file every query and mutation      *)
(* returns the empty or zero result and never fails: get_alerts the empty  *)
(* list, get_alert_count 0, mark_read 0 with or without an id,             *)
(* clear_alerts 0 with or without keep_unread, check_and_report the        *)
(* no-new-messages line, and get_all_agents_status has no entry for it.    *)
(***************************************************************************)
C22_NoMailboxFileGivesEmptyResults ==
    \A agent \in QueryAgents :
        _get_alert_file(agent) \notin DOMAIN files =>
            /\ \A unread_only \in BOOLEAN :
                  /\ \A priority \in {PyNone, PyStr(high)} :
                        \A r \in {get_alerts(files, agent, unread_only, priority)} :
                            r.exc = "none" /\ r.ret = <<>>
                  /\ \A r \in {get_alert_count(files, agent, unread_only)} :
                        r.exc = "none" /\ r.ret = 0
            /\ \A t \in Instants :
                  /\ \A alert_id \in AlertIds :
                        \A r \in {mark_read(files, t, agent, alert_id)} :
                            r.exc = "none" /\ r.ret = 0
                  /\ \A keep_unread \in BOOLEAN :
                        \A r \in {clear_alerts(files, t, agent, keep_unread)} :
                            r.exc = "none" /\ r.ret = 0
            /\ \A bell, enable_bell \in BOOLEAN :
                  \A r \in {check_and_report(files, agent, bell, enable_bell)} :
                      r.exc = "none" /\ r.ret = <<NoNewMessages(agent)>>
            /\ \A r \in {get_all_agents_status(files)} :
                  r.exc = "none" /\ agent \notin DOMAIN r.ret

\* agents with unread alerts next to agents of the roster without a file
C22_Witness ==
    /\ UnreadAt(Stored(files, FORGE)) = {1, 2}
    /\ UnreadAt(Stored(files, LOGAN)) = {1}
    /\ BOLT \notin DOMAIN files
    /\ GEMINI \notin DOMAIN files

(***************************************************************************)
(* C23: with the hook enabled, a create_alert call that persists a new     *)
(* Alert invokes the notification hook exactly once, the mailbox being     *)
(* saved by then, and a call rejected as a duplicate never invokes it;     *)
(* check_and_report invokes it exactly once when there is an unread Alert  *)
(* and its bell argument is true, and never when there is none; mark_read, *)
(* clear_alerts and get_alerts never invoke it.                            *)
(***************************************************************************)
C23_HookOncePerPersistedAlert ==
    /\ \A c \in ReportCalls, t \in Instants :
          \A r \in {create_alert(files, t, PyStr(FORGE), c.p.from_agent, c.p.subject,
                                 c.p.content, c.sf, c.p.priority)} :
              /\ r.exc = "none"
              /\ IF c.sf \in SourceFiles(Stored(files, FORGE))
                 THEN r.hook = 0 /\ r.files = files
                 ELSE /\ r.hook = 1
                      /\ Stored(r.files, FORGE)
                            = Append(Stored(files, FORGE), to_dict(r.ret))
    /\ \A agent \in Agents :
          /\ \A bell \in BOOLEAN :
                \A r \in {check_and_report(files, agent, bell, TRUE)} :
                    r.hook = IF UnreadAt(Stored(files, agent)) # {} /\ bell
                             THEN 1 ELSE 0
          /\ \A t \in Instants :
                /\ \A alert_id \in AlertIds :
                      mark_read(files, t, agent, alert_id).hook = 0
                /\ \A keep_unread \in BOOLEAN :
                      clear_alerts(files, t, agent, keep_unread).hook = 0
          /\ \A unread_only \in BOOLEAN, priority \in PriorityFilters :
                get_alerts(files, agent, unread_only, priority).hook = 0

\* a mailbox with an unread alert, whose file m1.json a call can repeat
\* while m3.json is new
C23_Witness ==
    /\ Len(Stored(files, FORGE)) = 2
    /\ UnreadAt(Stored(files, FORGE)) = {2}
    /\ SourceFiles(Stored(files, FORGE)) = {"m1.json", "m2.json"}

(***************************************************************************)
(* C24: load-mutate-save is not protected by a lock, and the last writer   *)
(* wins: when two processes run create_alert for the same agent with       *)
(* different source_files and both load before either saves, both calls    *)
(* report a created Alert and the mailbox ends as the loaded alerts        *)
(* followed by the Alert of one process only, the Alert of the other       *)
(* being lost.                                                             *)
(***************************************************************************)
C24_LastWriterWins ==
    \A p, q \in Procs :
        (/\ p # q
         /\ calls[p].pc = "returned" /\ calls[q].pc = "returned"
         /\ calls[p].created /\ calls[q].created
         /\ calls[p].to = calls[q].to
         /\ calls[p].alerts = calls[q].alerts
         /\ calls[p].alert.source_file # calls[q].alert.source_file)
        => \E w \in {p, q} :
              Stored(files, _get_alert_file(calls[w].to))
                 = [i \in 1..(Len(calls[w].alerts) + 1) |->
                       to_dict(Append(calls[w].alerts, calls[w].alert)[i])]

\* both processes loaded the empty mailbox, both report a created Alert, and
\* the mailbox holds the Alert of p2 alone
C24_Witness ==
    /\ calls["p1"].pc = "returned" /\ calls["p2"].pc = "returned"
    /\ calls["p1"].created /\ calls["p2"].created
    /\ calls["p1"].alerts = <<>> /\ calls["p2"].alerts = <<>>
    /\ calls["p1"].alert.source_file = "m1.json"
    /\ calls["p2"].alert.source_file = "m2.json"
    /\ Stored(files, FORGE) = <<to_dict(calls["p2"].alert)>>

(***************************************************************************)
(* C25: mailboxes are independent: create_alert, mark_read and             *)
(* clear_alerts addressed to one agent change only that agent's mailbox    *)
(* file (create_alert never touches the sender's), and after a fan-out     *)
(* each recipient holds its own copy, so that marking read or clearing in  *)
(* one recipient's mailbox leaves the Alerts of every other mailbox, and   *)
(* their read flags, as they were.                                         *)
(***************************************************************************)
\* every file but the mailbox of agent is in after as it is in before
OthersUntouched(before, after, agent) ==
    \A f \in (DOMAIN before \cup DOMAIN after) \ {agent} :
        /\ f \in DOMAIN before
        /\ f \in DOMAIN after
        /\ after[f] = before[f]

C25_MailboxesAreIndependent ==
    /\ \A agent \in InboundAgents \cup {BOLT}, t \in Instants :
          /\ \A sf \in Paths :
                \A r \in {create_alert(files, t, PyStr(agent), PyStr(CLI_CLIO), "s2",
                                       PyStr(hello), sf, PyStr(high))} :
                    r.exc = "none" /\ OthersUntouched(files, r.files, agent)
          /\ \A alert_id \in AlertIds :
                \A r \in {mark_read(files, t, agent, alert_id)} :
                    r.exc = "none" /\ OthersUntouched(files, r.files, agent)
          /\ \A keep_unread \in BOOLEAN :
                \A r \in {clear_alerts(files, t, agent, keep_unread)} :
                    r.exc = "none" /\ OthersUntouched(files, r.files, agent)
    /\ \A file \in InboundMessages, t \in Instants :
          \A r \in {create_alerts_from_synapse_message(files, t, "m1.json", file)} :
              /\ r.exc = "none"
              /\ \A f \in Addressed(file) :
                    /\ CountOf(Stored(r.files, f), "m1.json") = 1
                    /\ \A i \in 1..Len(Stored(r.files, f)) :
                          Stored(r.files, f)[i].to_agent = f
              /\ \A f \in (DOMAIN files \cup DOMAIN r.files) \ Addressed(file) :
                    f \in DOMAIN files /\ f \in DOMAIN r.files /\ r.files[f] = files[f]

\* the copies of one message in two mailboxes, read in the sender's mailbox
\* and unread in the other
C25_Witness ==
    /\ CountOf(Stored(files, FORGE), "m1.json") = 1
    /\ CountOf(Stored(files, CLIO), "m1.json") = 1
    /\ Stored(files, FORGE)[1].subject = "s1"
    /\ Stored(files, CLIO)[1].subject = "s1"
    /\ UnreadAt(Stored(files, FORGE)) = {1}
    /\ UnreadAt(Stored(files, CLIO)) = {}

(***************************************************************************)
(* C26: for the fields an inbound message lacks,                           *)
(* create_alerts_from_synapse_message uses from=UNKNOWN, subject='No       *)
(* Subject', the empty string as content and priority=NORMAL; when body    *)
(* and content are both present the preview is derived from body, and      *)
(* content is used only when body is absent.                               *)
(***************************************************************************)
\* the preview of a text content
TextPreview(text) == Slice(text, 100)

\* the fields expected of the Alerts of a message
ExpectedOf(msg) ==
    [from_agent |-> IF "from" \in DOMAIN msg
                    THEN PrefixesStripped(msg.from.v) ELSE UNKNOWN,
     subject |-> IF "subject" \in DOMAIN msg THEN msg.subject ELSE "No Subject",
     preview |-> IF "body" \in DOMAIN msg THEN TextPreview(msg.body.v)
                 ELSE IF "content" \in DOMAIN msg THEN TextPreview(msg.content.v)
                 ELSE <<>>,
     priority |-> IF "priority" \in DOMAIN msg
                  THEN LenientPriority(msg.priority) ELSE NORMAL]

\* alert carries the fields expected of msg
Carries(alert, msg) ==
    \A k \in DOMAIN ExpectedOf(msg) : alert[k] = ExpectedOf(msg)[k]

C26_AbsentFieldsTakeDefaults ==
    \A file \in InboundMessages, t \in Instants :
        \A r \in {create_alerts_from_synapse_message(files, t, "m1.json", file)} :
            /\ r.exc = "none"
            /\ r.ret # <<>>
            /\ \A i \in 1..Len(r.ret) : Carries(r.ret[i], file.v)
            /\ \A f \in Addressed(file) :
                  CountOf(Stored(files, f), "m1.json") = 0 =>
                      \E i \in 1..Len(Stored(r.files, f)) :
                          /\ Stored(r.files, f)[i].source_file = "m1.json"
                          /\ Carries(Stored(r.files, f)[i], file.v)

\* the Alert of the message without fields in one mailbox, the Alert of the
\* message with body and content in the other
C26_Witness ==
    /\ \E i \in 1..Len(Stored(files, FORGE)) :
          \A a \in {Stored(files, FORGE)[i]} :
              /\ a.from_agent = UNKNOWN /\ a.subject = "No Subject"
              /\ a.preview = <<>> /\ a.priority = NORMAL
    /\ \E i \in 1..Len(Stored(files, CLIO)) :
          \A a \in {Stored(files, CLIO)[i]} :
              a.subject = "s1" /\ a.preview = hello

(***************************************************************************)
(* C27: the tool-request importer deduplicates by message identifier:      *)
(* starting from a log without duplicates, after any sequence of scans     *)
(* over any set of request files each message identifier (msg_id, or the   *)
(* file stem when absent) appears at most once across active_requests and  *)
(* completed_requests.                                                     *)
(***************************************************************************)
\* the requests of the log, active and completed
LoggedRequests ==
    IF master_log.kind = "json"
    THEN master_log.v.active_requests \o master_log.v.completed_requests
    ELSE <<>>

C27_EachMessageIdLoggedOnce ==
    \A i, j \in 1..Len(LoggedRequests) :
        LoggedRequests[i].synapse_message_id = LoggedRequests[j].synapse_message_id
            => i = j

(***************************************************************************)
(* C28: the CLI exits with code 1 exactly on a usage error (no subcommand, *)
(* an unknown subcommand, or a subcommand missing its required argument)   *)
(* and with code 0 otherwise; no failure of a core operation (corrupt      *)
(* mailbox, malformed message) ends the process with an error.             *)
(***************************************************************************)
\* no subcommand, an unknown one, or one missing its required argument
UsageError(argv) ==
    \/ argv = <<>>
    \/ /\ argv # <<>>
       /\ \/ lower(argv[1]) \notin Subcommands
          \/ lower(argv[1]) \in WithArgument /\ Len(argv) < 2

C28_ExitCodeOneExactlyOnUsageError ==
    \A argv \in Argvs, file \in CliMessageFiles, t \in Instants :
        \A r \in {main(files, master_log, argv, file, <<>>, t)} :
            /\ r.exc = "none"
            /\ r.code = IF UsageError(argv) THEN 1 ELSE 0

(***************************************************************************)
(* C29: a stored Alert is immutable except for read, and read is           *)
(* monotonic: no operation changes a field other than read of an Alert     *)
(* already in a mailbox, read changes only from false to true and only     *)
(* through mark_read, a newly persisted Alert has read=false and is        *)
(* appended after the existing ones, whose relative order is kept, and     *)
(* Alerts leave a mailbox only through clear_alerts.                       *)
(***************************************************************************)
\* after keeps every alert of before, in place and as it was
KeepsAll(before, after) ==
    /\ Len(after) >= Len(before)
    /\ \A i \in 1..Len(before) : after[i] = before[i]

\* after is before with some read flags raised
OnlyReadRaised(before, after) ==
    /\ Len(after) = Len(before)
    /\ \A i \in 1..Len(before) :
          /\ [after[i] EXCEPT !.read = FALSE] = [before[i] EXCEPT !.read = FALSE]
          /\ before[i].read => after[i].read

C29_StoredAlertsOnlyGainRead ==
    /\ \A to \in Recipients, p \in Payloads \cup {SurrogatePayload},
          sf \in Paths, t \in Instants :
          \A r \in {create_alert(files, t, to, p.from_agent, p.subject, p.content,
                                 sf, p.priority)} :
              /\ KeepsAll(Stored(files, MailboxOf(to.v)), Stored(r.files, MailboxOf(to.v)))
              /\ Len(Stored(r.files, MailboxOf(to.v)))
                    <= Len(Stored(files, MailboxOf(to.v))) + 1
              /\ \A i \in (Len(Stored(files, MailboxOf(to.v))) + 1)
                            ..Len(Stored(r.files, MailboxOf(to.v))) :
                    Stored(r.files, MailboxOf(to.v))[i].read = FALSE
    /\ \A agent \in Agents, t \in Instants :
          /\ \A alert_id \in AlertIds :
                \A r \in {mark_read(files, t, agent, alert_id)} :
                    OnlyReadRaised(Stored(files, _get_alert_file(agent)),
                                   Stored(r.files, _get_alert_file(agent)))
          /\ \A keep_unread \in BOOLEAN :
                \A r \in {clear_alerts(files, t, agent, keep_unread)} :
                    Stored(r.files, _get_alert_file(agent))
                       \in {<<>>, SelectSeq(Stored(files, _get_alert_file(agent)), NotRead)}
          /\ \A unread_only \in BOOLEAN, priority \in {PyNone, PyStr(high)} :
                get_alerts(files, agent, unread_only, priority).files = files

(***************************************************************************)
(* C30: mark_read and clear_alerts rewrite the mailbox file on every call, *)
(* even when they change nothing and return 0: after either call on an     *)
(* agent without a mailbox file a mailbox file exists with zero alerts,    *)
(* and after either call on a corrupt mailbox file the file is a valid     *)
(* empty mailbox.                                                          *)
(***************************************************************************)
\* the call returned and left a mailbox file written at t, which is empty
\* when there was no file or a corrupt one before
Rewritten(r, agent, t) ==
    /\ r.exc = "none"
    /\ _get_alert_file(agent) \in DOMAIN r.files
    /\ EnvelopeConsistent(r.files[_get_alert_file(agent)])
    /\ r.files[_get_alert_file(agent)].v.last_updated = t
    /\ (\/ _get_alert_file(agent) \notin DOMAIN files
        \/ files[_get_alert_file(agent)] \in CorruptFiles)
          => /\ r.ret = 0
             /\ r.files[_get_alert_file(agent)].v.alert_count = 0
             /\ r.files[_get_alert_file(agent)].v.alerts = <<>>

C30_MarkReadAndClearAlwaysRewrite ==
    \A agent \in Agents, t \in Instants :
        /\ \A alert_id \in AlertIds :
              \A r \in {mark_read(files, t, agent, alert_id)} : Rewritten(r, agent, t)
        /\ \A keep_unread \in BOOLEAN :
              \A r \in {clear_alerts(files, t, agent, keep_unread)} : Rewritten(r, agent, t)

(***************************************************************************)
(* C31: deduplication looks only at the Alerts currently in the mailbox:   *)
(* re-ingesting a source_file whose Alert is still present never changes   *)
(* that Alert, even when it has been marked read (it stays read and no     *)
(* unread copy appears), whereas once clear_alerts has removed the Alert,  *)
(* re-ingesting the same source_file persists a new unread Alert and       *)
(* triggers the hook again.                                                *)
(***************************************************************************)
C31_DedupLooksAtPresentAlertsOnly ==
    \A to \in Recipients, p \in Payloads, sf \in Paths, t \in Instants :
        CountOf(Stored(files, FORGE), sf) > 0 =>
           /\ \A r \in {create_alert(files, t, to, p.from_agent, p.subject,
                                     p.content, sf, p.priority)} :
                 /\ r.exc = "none"
                 /\ r.hook = 0
                 /\ Stored(r.files, FORGE) = Stored(files, FORGE)
           /\ \A keep_unread \in BOOLEAN :
                 \A c \in {clear_alerts(files, t, FORGE, keep_unread)} :
                     CountOf(Stored(c.files, FORGE), sf) = 0 =>
                        \A r \in {create_alert(c.files, t, to, p.from_agent, p.subject,
                                               p.content, sf, p.priority)} :
                            /\ r.exc = "none"
                            /\ r.hook = 1
                            /\ r.ret.read = FALSE
                            /\ Stored(r.files, FORGE)
                                  = Append(Stored(c.files, FORGE), to_dict(r.ret))

\* the Alert of m2.json is read and the Alert of m1.json, stored behind it
\* at a later instant, is unread: clear_alerts(keep_unread) removes the first
C31_Witness ==
    /\ Len(Stored(files, FORGE)) = 2
    /\ Stored(files, FORGE)[1].source_file = "m2.json"
    /\ Stored(files, FORGE)[1].read = TRUE
    /\ Stored(files, FORGE)[1].timestamp = 0
    /\ Stored(files, FORGE)[2].source_file = "m1.json"
    /\ Stored(files, FORGE)[2].read = FALSE
    /\ Stored(files, FORGE)[2].timestamp = 1

(***************************************************************************)
(* C32: with several processes running create_alert, mark_read and         *)
(* clear_alerts on the same agent and interleaving at the granularity of   *)
(* individual load and save steps, every state of the mailbox file that    *)
(* can be reached holds at most one Alert per source_file and an envelope  *)
(* whose counts match its alerts, even though whole updates can be lost.   *)
(***************************************************************************)
C32_InterleavedFileStaysWellFormed ==
    \A f \in DOMAIN files :
        /\ EnvelopeConsistent(files[f])
        /\ \A sf \in Paths : CountOf(Stored(files, f), sf) <= 1

\* p1 loaded the unread Alert of m2.json and reports a created Alert of
\* m1.json, which the file written by the mark_read of p2 does not hold
C32_Witness ==
    /\ calls["p1"].pc = "returned"
    /\ calls["p1"].created
    /\ calls["p1"].alert.source_file = "m1.json"
    /\ Len(calls["p1"].alerts) = 1
    /\ calls["p1"].alerts[1].read = FALSE
    /\ calls["p2"] = Idle
    /\ Len(Stored(files, FORGE)) = 1
    /\ Stored(files, FORGE)[1].source_file = "m2.json"
    /\ Stored(files, FORGE)[1].read = TRUE

(***************************************************************************)
(* C33: create_alert stores an Alert in the mailbox addressed by its       *)
(* normalized recipient, whereas the queries and mark_read and             *)
(* clear_alerts address a mailbox by uppercasing and replacing spaces      *)
(* only: every stored Alert lies in the mailbox that its own to_agent      *)
(* field addresses, and an Alert created for recipient CURSOR_FORGE is     *)
(* returned by get_alerts('FORGE') and not by get_alerts('CURSOR_FORGE').  *)
(***************************************************************************)
CURSOR_FORGE == upper(cursor_forge)

\* recipients: prefixed, with a space, and one that spells CURSOR_FORGE
\* once the prefix inside it is removed
AddressedNames ==
    {cursor_forge, CURSOR_FORGE, FORGE,
     <<"f","o","r","g","e"," ","x">>,
     <<"C","U","R","C","U","R","S","O","R","_","S","O","R","_","F","O","R","G","E">>}

\* every alert of every file carries the to_agent that addresses the file
EachInItsOwnMailbox(fs) ==
    \A f \in DOMAIN fs :
        \A i \in 1..Len(Stored(fs, f)) :
            _get_alert_file(Stored(fs, f)[i].to_agent) = f

C33_AlertsLieInTheMailboxOfToAgent ==
    /\ EachInItsOwnMailbox(files)
    /\ \A name \in AddressedNames, t \in Instants :
          \A r \in {create_alert(files, t, PyStr(name), PyStr(CLI_CLIO), "s1",
                                 PyStr(hello), "m9.json", PyStr(high))} :
              /\ r.exc = "none"
              /\ EachInItsOwnMailbox(r.files)
              /\ to_dict(r.ret) \in Elements(Stored(r.files, _get_alert_file(r.ret.to_agent)))
              /\ name \in {cursor_forge, CURSOR_FORGE} =>
                    /\ r.ret \in Elements(get_alerts(r.files, FORGE, FALSE, PyNone).ret)
                    /\ \A agent \in {cursor_forge, CURSOR_FORGE} :
                          r.ret \notin Elements(get_alerts(r.files, agent, FALSE, PyNone).ret)

\* the Alert created for cursor_forge (m2.json) is stored in FORGE's
\* mailbox next to the one created for FORGE, and no file CURSOR_FORGE exists
C33_Witness ==
    /\ CountOf(Stored(files, FORGE), "m2.json") = 1
    /\ CountOf(Stored(files, FORGE), "m1.json") = 1
    /\ CURSOR_FORGE \notin DOMAIN files
    /\ Len(Stored(files, BOLT)) = 1

(***************************************************************************)
(* C34: scan_and_sync accounts for what it appends: its return value is    *)
(* the number of entries appended to active_requests in that run,          *)
(* statistics.total_requests grows by exactly that number, the new entries *)
(* get consecutive request_ids starting at the previous total_requests +   *)
(* 1, statistics.pending is the number of PENDING entries in               *)
(* active_requests, and when the return value is 0 the master log file is  *)
(* not written.                                                            *)
(***************************************************************************)
\* the active requests and the total of the log file, none when it is missing
ActiveBefore == IF master_log.kind = "json" THEN master_log.v.active_requests ELSE <<>>

TotalBefore ==
    IF master_log.kind = "json" THEN master_log.v.statistics.total_requests ELSE 0

C34_ScanAccountsForWhatItAppends ==
    \A tool_request_files \in RequestFileLists, t \in Instants :
        \A r \in {scan_and_sync(master_log, tool_request_files, t)} :
            IF r.ret = 0 THEN r.log = master_log
            ELSE /\ r.ret > 0
                 /\ r.log.kind = "json"
                 /\ Len(r.log.v.active_requests) = Len(ActiveBefore) + r.ret
                 /\ SubSeq(r.log.v.active_requests, 1, Len(ActiveBefore)) = ActiveBefore
                 /\ \A k \in 1..r.ret :
                       /\ r.log.v.active_requests[Len(ActiveBefore) + k].request_id
                             = TotalBefore + k
                       /\ r.log.v.active_requests[Len(ActiveBefore) + k].status = "PENDING"
                 /\ r.log.v.statistics.total_requests = TotalBefore + r.ret
                 /\ r.log.v.statistics.pending
                       = Cardinality({i \in 1..Len(r.log.v.active_requests) :
                                         r.log.v.active_requests[i].status = "PENDING"})

\* a log of two requests, the first of them completed since, which does not
\* hold the identifier X yet: a scan can append, and can append nothing
C34_Witness ==
    /\ master_log.kind = "json"
    /\ master_log.v.statistics.total_requests = 2
    /\ master_log.v.statistics.pending = 2
    /\ Len(master_log.v.completed_requests) = 1
    /\ Len(master_log.v.active_requests) = 1
    /\ \A i \in 1..Len(LoggedRequests) : LoggedRequests[i].synapse_message_id # "X"

====
